---- MODULE Spec2Model ----
(***************************************************************************)
(* human-curve: the scan page (ScanPage), the camera component             *)
(* (CameraView) with its frame loop, capture routine and countdown         *)
(* effects, and the memoized pose-model loader (loadPoseLandmarker).       *)
(*                                                                         *)
(* React state is modelled the way React 18 runs it.  A setState call      *)
(* changes the hook's state (canCapture, isCapturing, countdown, step ...) *)
(* at once; what the committed render shows and what its closures read is  *)
(* the record `view`, which Render copies from the state.  Passive effects *)
(* (useEffect) of a commit run later, in FlushEffects, in declaration      *)
(* order, reading `view`.  Refs (goodFrameCountRef, the frame buffers,     *)
(* captureRef) change at once.  An update made in a click handler is       *)
(* rendered and its effects are flushed before any other event (`sync`).   *)
(***************************************************************************)
EXTENDS Integers, Sequences, FiniteSets, TLC

\* ---------------------------------------------------------------- constants

MAX_BUFFER == 60

AUTO_CAPTURE_COUNTDOWN == 3

\* countdown === null ("not counting")
NoCountdown == -1

\* ------------------------------------------------------------------- bounds

\* accepted frames per CameraView session in the frame-loop specification
MaxFrames == 62

\* accepted frames beyond requiredGoodFrames per session in the full specification
MaxExtra == 2

\* ----------------------------------------------------------------- scan modes

ScanModes == {"face", "upper-body", "chest", "full-body"}

CameraModes == {"face", "upper-body", "full-body", "chest-front", "chest-side"}

RequiredGoodFrames(m) ==
    CASE m = "face" -> 20
      [] m = "upper-body" -> 25
      [] m = "chest" -> 25
      [] m = "full-body" -> 30

IsTwoPoseMode(m) == m = "chest" \/ m = "waist"

CameraModeOf(m, pose) ==
    IF IsTwoPoseMode(m)
    THEN (IF pose = "front" THEN "chest-front" ELSE "chest-side")
    ELSE m

AutoCapture(cm) == cm = "full-body" \/ cm = "chest-front" \/ cm = "chest-side"

Min(a, b) == IF a < b THEN a ELSE b

Max(a, b) == IF a > b THEN a ELSE b

\* ------------------------------------------------------------------- state

VARIABLES
    \* ScanPage
    route,              \* "scan" | "results": the page shown
    step,               \* Step state
    shownStep,          \* the step the committed render of ScanPage shows
    selectedMode,
    chestPose,
    frontMeasurements,  \* NoMeasurement or the front pose's measurement
    saved,              \* the session last written by saveSession
    navPending,         \* router.push("/results") called, navigation not yet done
    \* CameraView (one mounted instance at most)
    mounted,
    mode,               \* the mode prop
    requiredGoodFrames, \* the requiredGoodFrames prop
    loadState,          \* "loading" | "ready" | "error" (isLoading, poseLandmarker, cameraError)
    loopRunning,        \* the requestAnimationFrame loop is scheduled
    goodFrameCountRef,
    rawFrameBuffer,
    faceFrameBuffer,
    accepted,           \* accepted frames so far: the arrival number of the newest buffered frame
    canCapture,
    isCapturing,
    countdown,
    view,               \* the committed render: what the DOM shows and closures read
    effects,            \* passive effects of the last commit not yet run
    timer,              \* the countdown's setTimeout is armed
    captureRef,         \* "noop" | "idle" | "capturing": captureRef.current's closure
    sync,               \* the last event was a click: its updates flush before any other event
    captures,           \* onCapture calls of this CameraView
    lastCapture,        \* the last run of the capture routine that reached averaging
    averagerError,      \* an averager threw "No frames to average"
    \* pose.ts
    poseLandmarkerMemo, \* _poseLandmarker: 0 (null) or the instance (the load that made it)
    loadPromiseMemo,    \* _loadPromise: 0 (null) or the load whose promise it is
    loads,              \* per load started: "pending" | "fulfilled" | "rejected"
    callers,            \* per call of loadPoseLandmarker: what it awaits and what it got
    \* measurements.ts (pure functions)
    call,               \* the arguments of a call of a function of measurements.ts
    returned,           \* NoReturn, or how that call ended
    \* CameraView: the start-camera effect, per instance mounted so far
    cameras,            \* per CameraView: mounted, isLoading / cameraError, startCamera's position, streamRef
    streams             \* per MediaStream obtained: the CameraView that asked for it, live or stopped

scanVars == <<route, step, shownStep, selectedMode, chestPose, frontMeasurements, saved, navPending>>

camVars == <<mounted, mode, requiredGoodFrames, loadState, loopRunning, goodFrameCountRef,
             rawFrameBuffer, faceFrameBuffer, accepted, canCapture, isCapturing, countdown,
             view, effects, timer, captureRef, sync, captures, lastCapture, averagerError>>

loaderVars == <<poseLandmarkerMemo, loadPromiseMemo, loads, callers>>

libVars == <<call, returned>>

streamVars == <<cameras, streams>>

vars == <<scanVars, camVars, loaderVars, libVars, streamVars>>

NoCall == [fn |-> "none"]

NoReturn == [kind |-> "none"]

NoMeasurement == [scanMode |-> "none", chest |-> FALSE]

NoCapture == [by |-> "none", counter |-> 0, ready |-> FALSE, frames |-> 0]

InitialView == [canCapture |-> FALSE, isCapturing |-> FALSE,
                countdown |-> NoCountdown, loadState |-> "loading"]

AllEffects == {"loop", "ref", "start", "timer", "fire"}

\* ------------------------------------------------------- initial states

\* useState / useRef initial values of a CameraView instance
CameraInitial(cm, required) ==
    /\ mode = cm
    /\ requiredGoodFrames = required
    /\ loadState = "loading"
    /\ loopRunning = FALSE
    /\ goodFrameCountRef = 0
    /\ rawFrameBuffer = <<>>
    /\ faceFrameBuffer = <<>>
    /\ accepted = 0
    /\ canCapture = FALSE
    /\ isCapturing = FALSE
    /\ countdown = NoCountdown
    /\ view = InitialView
    /\ timer = FALSE
    /\ captureRef = "noop"
    /\ captures = 0
    /\ lastCapture = NoCapture
    /\ averagerError = FALSE

InitLoader ==
    /\ poseLandmarkerMemo = 0
    /\ loadPromiseMemo = 0
    /\ loads = <<>>
    /\ callers = <<>>

\* ScanPage after its session was loaded, at mode selection; no CameraView yet
InitScan ==
    /\ route = "scan"
    /\ step = "mode-select"
    /\ shownStep = "mode-select"
    /\ selectedMode = "full-body"
    /\ chestPose = "front"
    /\ frontMeasurements = NoMeasurement
    /\ saved = NoMeasurement
    /\ navPending = FALSE
    /\ mounted = FALSE
    /\ effects = {}
    /\ sync = FALSE
    /\ CameraInitial("full-body", RequiredGoodFrames("full-body"))

\* no call of a function of measurements.ts is under way
InitLib ==
    /\ call = NoCall
    /\ returned = NoReturn

InitStreams ==
    /\ cameras = <<>>
    /\ streams = <<>>

Init == InitScan /\ InitLoader /\ InitLib /\ InitStreams

\* --------------------------------------------------- CameraView: frame loop

\* mutant of CameraShown: the CameraView is kept mounted in every step
CameraShownInEveryStep(s) == TRUE

\* ScanPage renders a CameraView in its scanning step only
CameraShown(s) == s = "scanning"

\* state that the committed render does not show yet
Dirty ==
    \/ shownStep /= step
    \/ mounted /= CameraShown(step)
    \/ /\ mounted
       /\ view /= [canCapture |-> canCapture, isCapturing |-> isCapturing,
                   countdown |-> countdown, loadState |-> loadState]

\* a click's updates are still being rendered or their effects flushed
Busy == sync /\ (Dirty \/ effects /= {})

ActiveBuffer == IF mode = "face" THEN faceFrameBuffer ELSE rawFrameBuffer

\* mutant of PushFrame: a full buffer drops the newest entry instead of the oldest
PushFrameDropNewest(buf, x) ==
    LET pushed == Append(buf, x)
    IN  IF Len(pushed) > MAX_BUFFER THEN SubSeq(pushed, 1, MAX_BUFFER) ELSE pushed

\* buffer.push(x); if (buffer.length > MAX_BUFFER) buffer.shift()
PushFrame(buf, x) ==
    LET pushed == Append(buf, x)
    IN  IF Len(pushed) > MAX_BUFFER THEN Tail(pushed) ELSE pushed

\* mutant of CountAfterAccept: the increment without its cap
CountAfterAcceptUncapped(c, required) == c + 1

\* Math.min(goodFrameCountRef.current + 1, requiredGoodFrames)
CountAfterAccept(c, required) == Min(c + 1, required)

\* Math.max(0, goodFrameCountRef.current - 2)
CountAfterReject(c) == Max(0, c - 2)

\* if (goodFrameCountRef.current >= requiredGoodFrames) setCanCapture(true)
ReadyAfterAccept(c, required, old) == IF c >= required THEN TRUE ELSE old

\* mutant of ReadyAfterReject: the rejected branch never clears canCapture
ReadyAfterRejectKept(c, required, old) == old

\* if (goodFrameCountRef.current < requiredGoodFrames) setCanCapture(false)
ReadyAfterReject(c, required, old) == IF c < required THEN FALSE ELSE old

\* setCanCapture(false) of the no-pose branch
ReadyAfterNoPose(old) == FALSE

TickGuard == route = "scan" /\ mounted /\ loopRunning /\ ~Busy

tickUnchanged == <<scanVars, loaderVars, libVars, streamVars, mounted, mode, requiredGoodFrames, loadState,
                   loopRunning, isCapturing, countdown, view, effects, timer, captureRef,
                   captures, lastCapture, averagerError>>

\* tick(), processFrame returned null
TickNoPose ==
    /\ TickGuard
    /\ goodFrameCountRef' = 0
    /\ rawFrameBuffer' = <<>>
    /\ faceFrameBuffer' = <<>>
    /\ canCapture' = ReadyAfterNoPose(canCapture)
    /\ sync' = FALSE
    /\ UNCHANGED <<tickUnchanged, accepted>>

\* tick(), a pose was found and checkLandmarkQualityForMode accepted it;
\* the buffered measurement is named by its arrival number
TickValid(limit) ==
    /\ TickGuard
    /\ accepted < limit
    /\ accepted' = accepted + 1
    /\ IF mode = "face"
       THEN /\ faceFrameBuffer' = PushFrame(faceFrameBuffer, accepted + 1)
            /\ UNCHANGED rawFrameBuffer
       ELSE /\ rawFrameBuffer' = PushFrame(rawFrameBuffer, accepted + 1)
            /\ UNCHANGED faceFrameBuffer
    /\ goodFrameCountRef' = CountAfterAccept(goodFrameCountRef, requiredGoodFrames)
    /\ canCapture' = ReadyAfterAccept(goodFrameCountRef', requiredGoodFrames, canCapture)
    /\ sync' = FALSE
    /\ UNCHANGED tickUnchanged

\* tick(), a pose was found and checkLandmarkQualityForMode rejected it
TickInvalid ==
    /\ TickGuard
    /\ goodFrameCountRef' = CountAfterReject(goodFrameCountRef)
    /\ canCapture' = ReadyAfterReject(goodFrameCountRef', requiredGoodFrames, canCapture)
    /\ sync' = FALSE
    /\ UNCHANGED <<tickUnchanged, rawFrameBuffer, faceFrameBuffer, accepted>>

\* ------------------------------------------ the frame loop on its own

\* a CameraView of any mode, mounted, model loaded, its loop running
InitFrames ==
    /\ InitLoader
    /\ InitStreams
    /\ InitLib
    /\ route = "scan"
    /\ step = "scanning"
    /\ shownStep = "scanning"
    /\ selectedMode \in ScanModes
    /\ chestPose \in (IF selectedMode = "chest" THEN {"front", "side"} ELSE {"front"})
    /\ frontMeasurements =
          (IF chestPose = "side"
           THEN [scanMode |-> "upper-body", chest |-> FALSE]
           ELSE NoMeasurement)
    /\ saved = NoMeasurement
    /\ navPending = FALSE
    /\ mounted = TRUE
    /\ effects = {}
    /\ sync = FALSE
    /\ mode = CameraModeOf(selectedMode, chestPose)
    /\ requiredGoodFrames = RequiredGoodFrames(selectedMode)
    /\ loadState = "ready"
    /\ loopRunning = TRUE
    /\ goodFrameCountRef = 0
    /\ rawFrameBuffer = <<>>
    /\ faceFrameBuffer = <<>>
    /\ accepted = 0
    /\ canCapture = FALSE
    /\ isCapturing = FALSE
    /\ countdown = NoCountdown
    /\ view = [InitialView EXCEPT !.loadState = "ready"]
    /\ timer = FALSE
    /\ captureRef = "idle"
    /\ captures = 0
    /\ lastCapture = NoCapture
    /\ averagerError = FALSE

NextFrames ==
    \/ TickNoPose
    \/ TickValid(MaxFrames)
    \/ TickInvalid

SpecFrames == InitFrames /\ [][NextFrames]_vars

\* ------------------------------------------------ CameraView: capture routine

\* buffer.slice(-requiredGoodFrames)
SliceLast(buf, n) == SubSeq(buf, Max(1, Len(buf) - n + 1), Len(buf))

\* mutant of EmptyFrames: handleCapture without its frames.length === 0 return
EmptyFramesUnchecked(frames) == FALSE

\* if (frames.length === 0) { setIsCapturing(false); return; }
EmptyFrames(frames) == Len(frames) = 0

\* averageRawMeasurements / averageFaceMeasurements: throw on no frames
AveragerThrows(frames) == Len(frames) = 0

\* scaleMode of handleCapture, "face" for the face branch
MeasuredScanMode(cm) ==
    IF cm = "face" THEN "face"
    ELSE IF cm = "chest-front" \/ cm = "chest-side" \/ cm = "upper-body" THEN "upper-body"
    ELSE "full-body"

captureVars == <<isCapturing, captures, lastCapture, averagerError, scanVars>>

\* ScanPage.handleCapture
PageHandleCapture(m) ==
    /\ saved' = [scanMode |-> selectedMode, chest |-> FALSE]
    /\ navPending' = TRUE
    /\ UNCHANGED <<route, step, shownStep, selectedMode, chestPose, frontMeasurements>>

\* ScanPage.handlePose1Capture
HandlePose1Capture(m) ==
    /\ frontMeasurements' = m
    /\ step' = "chest-transition"
    /\ UNCHANGED <<route, shownStep, selectedMode, chestPose, saved, navPending>>

\* ScanPage.handlePose2Capture
HandlePose2Capture(m) ==
    IF frontMeasurements = NoMeasurement
    THEN UNCHANGED scanVars
    ELSE /\ saved' = [scanMode |-> selectedMode, chest |-> TRUE]
         /\ navPending' = TRUE
         /\ UNCHANGED <<route, step, shownStep, selectedMode, chestPose, frontMeasurements>>

\* the onCapture prop ScanPage passes for the mounted mode
OnCapture(m) ==
    IF mode = "chest-front" THEN HandlePose1Capture(m)
    ELSE IF mode = "chest-side" THEN HandlePose2Capture(m)
    ELSE PageHandleCapture(m)

\* handleCapture as closed over isCapturing = closedIsCapturing
HandleCapture(closedIsCapturing, by) ==
    LET frames == SliceLast(ActiveBuffer, requiredGoodFrames)
    IN  IF closedIsCapturing
        THEN UNCHANGED captureVars
        ELSE IF EmptyFrames(frames)
        THEN /\ isCapturing' = FALSE
             /\ UNCHANGED <<captures, lastCapture, averagerError, scanVars>>
        ELSE IF AveragerThrows(frames)
        THEN /\ isCapturing' = TRUE
             /\ averagerError' = TRUE
             /\ UNCHANGED <<captures, lastCapture, scanVars>>
        ELSE /\ isCapturing' = TRUE
             /\ captures' = captures + 1
             /\ lastCapture' = [by |-> by, counter |-> goodFrameCountRef,
                                ready |-> canCapture, frames |-> Len(frames)]
             /\ OnCapture([scanMode |-> MeasuredScanMode(mode), chest |-> FALSE])
             /\ UNCHANGED averagerError

\* disabled={!canCapture || isCapturing} of both capture buttons
ButtonEnabled(v) == v.canCapture /\ ~v.isCapturing

\* a press of the capture button the committed render shows enabled
ClickCapture ==
    /\ route = "scan" /\ mounted /\ ~Busy
    /\ view.loadState = "ready"
    /\ ButtonEnabled(view)
    /\ HandleCapture(view.isCapturing, "button")
    /\ sync' = TRUE
    /\ UNCHANGED <<loaderVars, libVars, streamVars, mounted, mode, requiredGoodFrames, loadState, loopRunning,
                   goodFrameCountRef, rawFrameBuffer, faceFrameBuffer, accepted, canCapture,
                   countdown, view, effects, timer, captureRef>>

\* ------------------------------------------------- CameraView: effects

\* the countdown start effect: what it leaves in countdown
StartCountdown(auto, v, old) ==
    IF ~auto \/ v.isCapturing THEN old
    ELSE IF v.canCapture THEN AUTO_CAPTURE_COUNTDOWN
    ELSE NoCountdown

\* the countdown tick effect arms a timeout
ArmsTimer(v) == v.countdown /= NoCountdown /\ v.countdown > 0

\* the countdown fire effect fires
Fires(v) == v.countdown = 0

\* setCountdown((c) => (c !== null ? c - 1 : null))
CountdownStep(c) == IF c /= NoCountdown THEN c - 1 ELSE NoCountdown

\* the timeout of the countdown tick effect expires
TimerFire ==
    /\ route = "scan" /\ mounted /\ timer /\ ~Busy
    /\ countdown' = CountdownStep(countdown)
    /\ timer' = FALSE
    /\ sync' = FALSE
    /\ UNCHANGED <<scanVars, loaderVars, libVars, streamVars, mounted, mode, requiredGoodFrames, loadState,
                   loopRunning, goodFrameCountRef, rawFrameBuffer, faceFrameBuffer, accepted,
                   canCapture, isCapturing, view, effects, captureRef, captures, lastCapture,
                   averagerError>>

\* the passive effects of the last commit, in declaration order
FlushEffects ==
    /\ route = "scan" /\ mounted /\ effects /= {}
    /\ effects' = {}
    /\ loopRunning' = IF "loop" \in effects THEN view.loadState = "ready" ELSE loopRunning
    /\ captureRef' = IF "ref" \in effects
                     THEN (IF view.isCapturing THEN "capturing" ELSE "idle")
                     ELSE captureRef
    /\ timer' = IF "timer" \in effects THEN ArmsTimer(view) ELSE timer
    /\ LET started == IF "start" \in effects
                      THEN StartCountdown(AutoCapture(mode), view, countdown)
                      ELSE countdown
           fires == "fire" \in effects /\ Fires(view)
       IN  /\ countdown' = IF fires THEN NoCountdown ELSE started
           /\ IF fires /\ captureRef' /= "noop"
              THEN HandleCapture(captureRef' = "capturing", "countdown")
              ELSE UNCHANGED captureVars
    /\ UNCHANGED <<loaderVars, libVars, streamVars, mounted, mode, requiredGoodFrames, loadState, goodFrameCountRef,
                   rawFrameBuffer, faceFrameBuffer, accepted, canCapture, view, sync>>

\* which effects' dependencies differ between two commits
ChangedEffects(old, new) ==
    (IF old.loadState /= new.loadState THEN {"loop"} ELSE {})
    \cup (IF old.isCapturing /= new.isCapturing THEN {"ref"} ELSE {})
    \cup (IF old.canCapture /= new.canCapture \/ old.isCapturing /= new.isCapturing
          THEN {"start"} ELSE {})
    \cup (IF old.countdown /= new.countdown THEN {"timer", "fire"} ELSE {})

\* a new CameraView instance: useState / useRef initial values, every effect pending
MountCamera ==
    /\ mounted' = TRUE
    /\ mode' = CameraModeOf(selectedMode, chestPose)
    /\ requiredGoodFrames' = RequiredGoodFrames(selectedMode)
    /\ loadState' = "loading"
    /\ loopRunning' = FALSE
    /\ goodFrameCountRef' = 0
    /\ rawFrameBuffer' = <<>>
    /\ faceFrameBuffer' = <<>>
    /\ accepted' = 0
    /\ canCapture' = FALSE
    /\ isCapturing' = FALSE
    /\ countdown' = NoCountdown
    /\ view' = InitialView
    /\ effects' = AllEffects
    /\ timer' = FALSE
    /\ captureRef' = "noop"
    /\ captures' = 0
    /\ lastCapture' = NoCapture
    /\ averagerError' = FALSE

\* the instance is dropped: effect cleanups cancel the loop and the timeout, and
\* its hooks and refs are gone
UnmountCamera ==
    /\ mounted' = FALSE
    /\ loadState' = "loading"
    /\ loopRunning' = FALSE
    /\ goodFrameCountRef' = 0
    /\ rawFrameBuffer' = <<>>
    /\ faceFrameBuffer' = <<>>
    /\ accepted' = 0
    /\ canCapture' = FALSE
    /\ isCapturing' = FALSE
    /\ countdown' = NoCountdown
    /\ view' = InitialView
    /\ effects' = {}
    /\ timer' = FALSE
    /\ captureRef' = "noop"
    /\ captures' = 0
    /\ lastCapture' = NoCapture
    /\ averagerError' = FALSE
    /\ UNCHANGED <<mode, requiredGoodFrames>>

\* React renders and commits the pending updates of ScanPage and CameraView
Render ==
    /\ route = "scan" /\ effects = {} /\ Dirty
    /\ shownStep' = step
    /\ IF mounted /\ ~CameraShown(step) THEN UnmountCamera
       ELSE IF ~mounted /\ CameraShown(step) THEN MountCamera
       ELSE /\ view' = [canCapture |-> canCapture, isCapturing |-> isCapturing,
                        countdown |-> countdown, loadState |-> loadState]
            /\ effects' = ChangedEffects(view, view')
            /\ UNCHANGED <<mounted, mode, requiredGoodFrames, loadState, loopRunning,
                           goodFrameCountRef, rawFrameBuffer, faceFrameBuffer, accepted,
                           canCapture, isCapturing, countdown, timer, captureRef, captures,
                           lastCapture, averagerError>>
    /\ UNCHANGED <<route, step, selectedMode, chestPose, frontMeasurements, saved,
                   navPending, loaderVars, libVars, streamVars, sync>>

\* init() of the load effect: loadPoseLandmarker resolved and the instance is still mounted
InitResolved ==
    /\ route = "scan" /\ mounted /\ loadState = "loading" /\ ~Busy
    /\ loadState' = "ready"
    /\ sync' = FALSE
    /\ UNCHANGED <<scanVars, loaderVars, libVars, streamVars, mounted, mode, requiredGoodFrames, loopRunning,
                   goodFrameCountRef, rawFrameBuffer, faceFrameBuffer, accepted, canCapture,
                   isCapturing, countdown, view, effects, timer, captureRef, captures,
                   lastCapture, averagerError>>

\* init() of the load effect: loadPoseLandmarker rejected, setCameraError
InitRejected ==
    /\ route = "scan" /\ mounted /\ loadState = "loading" /\ ~Busy
    /\ loadState' = "error"
    /\ sync' = FALSE
    /\ UNCHANGED <<scanVars, loaderVars, libVars, streamVars, mounted, mode, requiredGoodFrames, loopRunning,
                   goodFrameCountRef, rawFrameBuffer, faceFrameBuffer, accepted, canCapture,
                   isCapturing, countdown, view, effects, timer, captureRef, captures,
                   lastCapture, averagerError>>

\* ---------------------------------------------------------------- ScanPage

pageClickUnchanged == <<loaderVars, libVars, streamVars, mounted, mode, requiredGoodFrames, loadState, loopRunning,
                        goodFrameCountRef, rawFrameBuffer, faceFrameBuffer, accepted,
                        canCapture, isCapturing, countdown, view, effects, timer, captureRef,
                        captures, lastCapture, averagerError>>

PageClick(shown) == route = "scan" /\ ~Busy /\ shownStep = shown /\ sync' = TRUE

\* a mode card
SelectMode ==
    /\ PageClick("mode-select")
    /\ \E m \in ScanModes \ {selectedMode} : selectedMode' = m
    /\ UNCHANGED <<route, step, shownStep, chestPose, frontMeasurements, saved, navPending>>
    /\ UNCHANGED pageClickUnchanged

\* mutant of StartScanning: the front measurement is kept
StartScanningKeepsFront ==
    /\ PageClick("mode-select")
    /\ chestPose' = "front"
    /\ step' = "scanning"
    /\ UNCHANGED <<route, shownStep, selectedMode, saved, navPending, frontMeasurements>>
    /\ UNCHANGED pageClickUnchanged

\* "Start Scanning"
StartScanning ==
    /\ PageClick("mode-select")
    /\ chestPose' = "front"
    /\ frontMeasurements' = NoMeasurement
    /\ step' = "scanning"
    /\ UNCHANGED <<route, shownStep, selectedMode, saved, navPending>>
    /\ UNCHANGED pageClickUnchanged

\* "Cancel" of the chest transition
CancelTransition ==
    /\ PageClick("chest-transition")
    /\ step' = "mode-select"
    /\ UNCHANGED <<route, shownStep, selectedMode, chestPose, frontMeasurements, saved,
                   navPending>>
    /\ UNCHANGED pageClickUnchanged

\* "Ready - Start Pose 2"
StartPose2 ==
    /\ PageClick("chest-transition")
    /\ chestPose' = "side"
    /\ step' = "scanning"
    /\ UNCHANGED <<route, shownStep, selectedMode, frontMeasurements, saved, navPending>>
    /\ UNCHANGED pageClickUnchanged

\* "Change mode" of the scanning step
ChangeMode ==
    /\ PageClick("scanning")
    /\ step' = "mode-select"
    /\ UNCHANGED <<route, shownStep, selectedMode, chestPose, frontMeasurements, saved,
                   navPending>>
    /\ UNCHANGED pageClickUnchanged

\* router.push("/results") completes: the scan page and its CameraView are gone
Navigate ==
    /\ route = "scan" /\ navPending /\ ~Busy
    /\ route' = "results"
    /\ navPending' = FALSE
    /\ sync' = FALSE
    /\ UnmountCamera
    /\ UNCHANGED <<step, shownStep, selectedMode, chestPose, frontMeasurements, saved,
                   loaderVars, libVars, streamVars>>

Next ==
    \/ SelectMode
    \/ StartScanning
    \/ CancelTransition
    \/ StartPose2
    \/ ChangeMode
    \/ Navigate
    \/ Render
    \/ FlushEffects
    \/ InitResolved
    \/ InitRejected
    \/ TickNoPose
    \/ TickValid(requiredGoodFrames + MaxExtra)
    \/ TickInvalid
    \/ TimerFire
    \/ ClickCapture

Spec == Init /\ [][Next]_vars

\* ------------------------------------------------------------- pose.ts

\* loads started / calls made, at most
MaxLoads == 3

MaxCallers == 4

\* mutant of CallBranch: no check of _loadPromise
CallBranchNoDedup(memo, promise) == IF memo /= 0 THEN "cached" ELSE "start"

\* which return of loadPoseLandmarker a call takes
CallBranch(memo, promise) ==
    IF memo /= 0 THEN "cached"
    ELSE IF promise /= 0 THEN "join"
    ELSE "start"

\* mutant of MemoAfterFailure: the catch block leaves _loadPromise set
MemoAfterFailureKept(promise) == promise

\* catch (err) { _loadPromise = null; throw err; }
MemoAfterFailure(promise) == 0

\* _poseLandmarker = poseLandmarker, at the end of a successful load
InstanceAfterSuccess(l) == l

loaderUnchanged == <<scanVars, camVars, libVars, streamVars>>

\* a call of loadPoseLandmarker, up to its first suspension
Call ==
    /\ Len(callers) < MaxCallers
    /\ LET branch == CallBranch(poseLandmarkerMemo, loadPromiseMemo)
       IN  CASE branch = "cached" ->
                  /\ callers' = Append(callers,
                        [awaits |-> 0, owner |-> FALSE, atCall |-> "cached",
                         result |-> "instance", value |-> poseLandmarkerMemo])
                  /\ UNCHANGED <<poseLandmarkerMemo, loadPromiseMemo, loads>>
             [] branch = "join" ->
                  /\ callers' = Append(callers,
                        [awaits |-> loadPromiseMemo, owner |-> FALSE,
                         atCall |-> loads[loadPromiseMemo],
                         result |-> "pending", value |-> 0])
                  /\ UNCHANGED <<poseLandmarkerMemo, loadPromiseMemo, loads>>
             [] branch = "start" ->
                  /\ Len(loads) < MaxLoads
                  /\ loads' = Append(loads, "pending")
                  /\ loadPromiseMemo' = Len(loads) + 1
                  /\ callers' = Append(callers,
                        [awaits |-> Len(loads) + 1, owner |-> TRUE, atCall |-> "pending",
                         result |-> "pending", value |-> 0])
                  /\ UNCHANGED poseLandmarkerMemo
    /\ UNCHANGED loaderUnchanged

\* the load's async body returns: the instance is created (GPU, or CPU after the
\* GPU delegate failed) and stored
LoadSucceed ==
    /\ \E l \in 1..Len(loads) :
          /\ loads[l] = "pending"
          /\ loads' = [loads EXCEPT ![l] = "fulfilled"]
          /\ poseLandmarkerMemo' = InstanceAfterSuccess(l)
    /\ UNCHANGED <<loadPromiseMemo, callers>>
    /\ UNCHANGED loaderUnchanged

\* the load's async body throws.  The await of the call that started the load is
\* the first reaction registered on the promise, so its catch block runs in the
\* microtask checkpoint of the rejection, before any task can call again.
LoadFail ==
    /\ \E l \in 1..Len(loads) :
          /\ loads[l] = "pending"
          /\ loads' = [loads EXCEPT ![l] = "rejected"]
          /\ loadPromiseMemo' = MemoAfterFailure(loadPromiseMemo)
          /\ callers' = [c \in 1..Len(callers) |->
                           IF callers[c].owner /\ callers[c].awaits = l
                           THEN [callers[c] EXCEPT !.result = "error"]
                           ELSE callers[c]]
    /\ UNCHANGED poseLandmarkerMemo
    /\ UNCHANGED loaderUnchanged

\* the promise a call returned settles with the outcome of the load it awaits
Deliver ==
    /\ \E c \in 1..Len(callers) :
          /\ callers[c].result = "pending"
          /\ loads[callers[c].awaits] /= "pending"
          /\ callers' = [callers EXCEPT ![c] =
                           IF loads[callers[c].awaits] = "fulfilled"
                           THEN [@ EXCEPT !.result = "instance", !.value = callers[c].awaits]
                           ELSE [@ EXCEPT !.result = "error"]]
    /\ UNCHANGED <<poseLandmarkerMemo, loadPromiseMemo, loads>>
    /\ UNCHANGED loaderUnchanged

NextLoad ==
    \/ Call
    \/ LoadSucceed
    \/ LoadFail
    \/ Deliver

SpecLoad == Init /\ [][NextLoad]_vars

\* ------------------------------------------- measurements.ts: quality checks
\* Coordinates and visibilities are normalised numbers; the model writes them in
\* hundredths (x = 12 is 0.12).  The long dash of the source's reason strings is
\* written " - ".

\* Landmark.visibility is undefined
NoVisibility == -1

VISIBILITY_THRESHOLD == 50

FULL_BODY_LANDMARKS == <<0, 11, 12, 23, 24, 27, 28>>

\* mutant of UPPER_BODY_LANDMARKS: shoulders and hips only
UPPER_BODY_LANDMARKS_NoWrists == <<11, 12, 23, 24>>

UPPER_BODY_LANDMARKS == <<11, 12, 23, 24, 15, 16>>

FACE_LANDMARKS == <<0, 7, 8, 1, 4>>

\* lm.visibility === undefined || lm.visibility >= VISIBILITY_THRESHOLD
IsVisible(lm) == lm.visibility = NoVisibility \/ lm.visibility >= VISIBILITY_THRESHOLD

\* landmarks[idx]: an index at or past the length, or a hole, reads undefined
At(landmarks, idx) ==
    IF idx < landmarks.length
    THEN landmarks.at[idx]
    ELSE [present |-> FALSE, x |-> 0, y |-> 0, visibility |-> NoVisibility]

\* the loop "for (const idx of REQUIRED) { if (!lm || !isVisible(lm)) return ... }" returns
SomeNotVisible(landmarks, required) ==
    \E k \in 1..Len(required) :
        ~At(landmarks, required[k]).present \/ ~IsVisible(At(landmarks, required[k]))

Abs(n) == IF n < 0 THEN -n ELSE n

Quality(valid, reason) == [kind |-> "return", valid |-> valid, reason |-> reason]

\* reading a property of undefined
TypeError == [kind |-> "throw", valid |-> FALSE, reason |-> "TypeError"]

\* a property of one of these landmarks is read next
Deref(lms) == \A k \in 1..Len(lms) : lms[k].present

\* mutant of CheckFaceQuality: the centring check comes before the width checks
CheckFaceQualityCentreFirst(landmarks) ==
    LET nose == At(landmarks, 0)
        leftEar == At(landmarks, 7)
        rightEar == At(landmarks, 8)
        faceWidth == Abs(leftEar.x - rightEar.x)
    IN  IF SomeNotVisible(landmarks, FACE_LANDMARKS)
        THEN Quality(FALSE, "Face not fully visible")
        ELSE IF nose.x < 12 \/ nose.x > 88 THEN Quality(FALSE, "Centre your face in frame")
        ELSE IF faceWidth < 12 THEN Quality(FALSE, "Move closer to the camera")
        ELSE IF faceWidth > 70 THEN Quality(FALSE, "Move back from the camera")
        ELSE IF nose.y < 8 THEN Quality(FALSE, "Tilt face down slightly")
        ELSE IF nose.y > 88 THEN Quality(FALSE, "Tilt face up slightly")
        ELSE Quality(TRUE, "Good - hold still")

CheckFaceQuality(landmarks) ==
    LET nose == At(landmarks, 0)
        leftEar == At(landmarks, 7)
        rightEar == At(landmarks, 8)
        faceWidth == Abs(leftEar.x - rightEar.x)
    IN  IF SomeNotVisible(landmarks, FACE_LANDMARKS)
        THEN Quality(FALSE, "Face not fully visible")
        ELSE IF ~Deref(<<leftEar, rightEar>>) THEN TypeError
        ELSE IF faceWidth < 12 THEN Quality(FALSE, "Move closer to the camera")
        ELSE IF faceWidth > 70 THEN Quality(FALSE, "Move back from the camera")
        ELSE IF ~Deref(<<nose>>) THEN TypeError
        ELSE IF nose.x < 12 \/ nose.x > 88 THEN Quality(FALSE, "Centre your face in frame")
        ELSE IF nose.y < 8 THEN Quality(FALSE, "Tilt face down slightly")
        ELSE IF nose.y > 88 THEN Quality(FALSE, "Tilt face up slightly")
        ELSE Quality(TRUE, "Good - hold still")

CheckUpperBodyQuality(landmarks) ==
    LET leftShoulder == At(landmarks, 11)
        rightShoulder == At(landmarks, 12)
        leftHip == At(landmarks, 23)
        rightHip == At(landmarks, 24)
        margin == 5
        shoulderY == Min(leftShoulder.y, rightShoulder.y)
        hipY == Max(leftHip.y, rightHip.y)
        torsoFraction == hipY - shoulderY
    IN  IF SomeNotVisible(landmarks, UPPER_BODY_LANDMARKS)
        THEN Quality(FALSE, "Upper body not fully visible")
        ELSE IF ~Deref(<<leftShoulder, rightShoulder>>) THEN TypeError
        ELSE IF shoulderY < margin THEN Quality(FALSE, "Move back - shoulders cut off")
        ELSE IF ~Deref(<<leftHip, rightHip>>) THEN TypeError
        ELSE IF hipY > 100 - margin THEN Quality(FALSE, "Move back - hips cut off")
        ELSE IF torsoFraction < 22 THEN Quality(FALSE, "Move closer to the camera")
        ELSE Quality(TRUE, "Good framing - hold still")

\* shoulderMidX is a half of a sum: the comparison is written on the doubles
CheckSideProfileQuality(landmarks) ==
    LET nose == At(landmarks, 0)
        leftShoulder == At(landmarks, 11)
        rightShoulder == At(landmarks, 12)
        leftHip == At(landmarks, 23)
        rightHip == At(landmarks, 24)
        margin == 5
        twiceNoseDeviation == Abs(2 * nose.x - (leftShoulder.x + rightShoulder.x))
    IN  IF SomeNotVisible(landmarks, UPPER_BODY_LANDMARKS)
        THEN Quality(FALSE, "Upper body not fully visible")
        ELSE IF ~Deref(<<leftShoulder, rightShoulder>>) THEN TypeError
        ELSE IF Min(leftShoulder.y, rightShoulder.y) < margin
        THEN Quality(FALSE, "Move back - shoulders cut off")
        ELSE IF ~Deref(<<leftHip, rightHip>>) THEN TypeError
        ELSE IF Max(leftHip.y, rightHip.y) > 100 - margin
        THEN Quality(FALSE, "Move back - hips cut off")
        ELSE IF ~Deref(<<nose>>) THEN TypeError
        ELSE IF twiceNoseDeviation < 2 * 8
        THEN Quality(FALSE, "Turn sideways - show your profile")
        ELSE IF Abs(leftShoulder.x - rightShoulder.x) < 2
        THEN Quality(FALSE, "Rotate slightly so both shoulders are detected")
        ELSE Quality(TRUE, "Good profile - hold still")

\* mutant of CheckFullBodyQuality: the feet are checked before the head
CheckFullBodyQualityFeetFirst(landmarks) ==
    LET margin == 8
        nose == At(landmarks, 0)
        leftAnkle == At(landmarks, 27)
        rightAnkle == At(landmarks, 28)
        bodyHeightFraction == Max(leftAnkle.y, rightAnkle.y) - nose.y
    IN  IF SomeNotVisible(landmarks, FULL_BODY_LANDMARKS)
        THEN Quality(FALSE, "Key body parts not visible")
        ELSE IF Max(leftAnkle.y, rightAnkle.y) > 100 - margin
        THEN Quality(FALSE, "Move back - feet cut off")
        ELSE IF nose.y < margin THEN Quality(FALSE, "Move back - head cut off")
        ELSE IF bodyHeightFraction < 40 THEN Quality(FALSE, "Move closer - too far away")
        ELSE IF bodyHeightFraction > 98 THEN Quality(FALSE, "Move back - too close")
        ELSE Quality(TRUE, "Good framing - hold still")

\* mutant of CheckFullBodyQuality: too close from a fraction of 0.8 on
CheckFullBodyQualityCloseAt80(landmarks) ==
    LET margin == 8
        nose == At(landmarks, 0)
        leftAnkle == At(landmarks, 27)
        rightAnkle == At(landmarks, 28)
        bodyHeightFraction == Max(leftAnkle.y, rightAnkle.y) - nose.y
    IN  IF SomeNotVisible(landmarks, FULL_BODY_LANDMARKS)
        THEN Quality(FALSE, "Key body parts not visible")
        ELSE IF ~Deref(<<nose>>) THEN TypeError
        ELSE IF nose.y < margin THEN Quality(FALSE, "Move back - head cut off")
        ELSE IF ~Deref(<<leftAnkle, rightAnkle>>) THEN TypeError
        ELSE IF Max(leftAnkle.y, rightAnkle.y) > 100 - margin
        THEN Quality(FALSE, "Move back - feet cut off")
        ELSE IF bodyHeightFraction < 40 THEN Quality(FALSE, "Move closer - too far away")
        ELSE IF bodyHeightFraction > 80 THEN Quality(FALSE, "Move back - too close")
        ELSE Quality(TRUE, "Good framing - hold still")

CheckFullBodyQuality(landmarks) ==
    LET margin == 8
        nose == At(landmarks, 0)
        leftAnkle == At(landmarks, 27)
        rightAnkle == At(landmarks, 28)
        bodyHeightFraction == Max(leftAnkle.y, rightAnkle.y) - nose.y
    IN  IF SomeNotVisible(landmarks, FULL_BODY_LANDMARKS)
        THEN Quality(FALSE, "Key body parts not visible")
        ELSE IF ~Deref(<<nose>>) THEN TypeError
        ELSE IF nose.y < margin THEN Quality(FALSE, "Move back - head cut off")
        ELSE IF ~Deref(<<leftAnkle, rightAnkle>>) THEN TypeError
        ELSE IF Max(leftAnkle.y, rightAnkle.y) > 100 - margin
        THEN Quality(FALSE, "Move back - feet cut off")
        ELSE IF bodyHeightFraction < 40 THEN Quality(FALSE, "Move closer - too far away")
        ELSE IF bodyHeightFraction > 98 THEN Quality(FALSE, "Move back - too close")
        ELSE Quality(TRUE, "Good framing - hold still")

\* mutant of NotDetected: the length test is off by one
NotDetectedOffByOne(landmarks) == landmarks.isNull \/ landmarks.length < 32

\* !landmarks || landmarks.length < 33
NotDetected(landmarks) == landmarks.isNull \/ landmarks.length < 33

CheckLandmarkQualityForMode(landmarks, cm) ==
    IF NotDetected(landmarks) THEN Quality(FALSE, "Body not detected")
    ELSE IF cm = "face" THEN CheckFaceQuality(landmarks)
    ELSE IF cm = "upper-body" \/ cm = "chest-front" THEN CheckUpperBodyQuality(landmarks)
    ELSE IF cm = "chest-side" THEN CheckSideProfileQuality(landmarks)
    ELSE CheckFullBodyQuality(landmarks)

\* ------------------------------------ the landmarks the extractors read
\* lm[i] of extractRawMeasurements
ExtractRawMeasurementsReads == {11, 12, 23, 24, 27, 28, 15, 16, 0, 7, 8}

\* lm[i] of extractUpperBodyMeasurements
ExtractUpperBodyMeasurementsReads == {11, 12, 23, 24, 15, 16, 0, 7, 8}

\* lm[i] of extractFaceMeasurements
ExtractFaceMeasurementsReads == {7, 8, 1, 4, 9, 10}

\* tick: the extractor a valid frame is given to in camera mode cm
ExtractorReads(cm) ==
    IF cm = "face" THEN ExtractFaceMeasurementsReads
    ELSE IF cm = "full-body" THEN ExtractRawMeasurementsReads
    ELSE ExtractUpperBodyMeasurementsReads

\* ---------------------------------- the quality check on its own
\* The input is a pose every mode accepts, null, or that pose cut to 32 entries,
\* changed in up to MaxEdits places: a coordinate or the visibility of a landmark
\* replaced, or the entry removed.

MaxEdits == 2

LandmarkIdx == 0..32

\* the landmarks a change is made to: those a check reads, and the left mouth corner
EditedIdx == {0, 1, 4, 7, 8, 9, 11, 12, 15, 16, 23, 24, 27, 28}

\* the landmarks whose x, and whose y, some check reads
EditedXIdx == {0, 7, 8, 11, 12}

EditedYIdx == {0, 11, 12, 23, 24, 27, 28}

EditXs == {-5, 0, 11, 12, 41, 42, 49, 58, 62, 88, 89}

EditYs == {4, 5, 7, 8, 33, 34, 50, 51, 88, 89, 92, 93, 95, 96}

EditVisibilities == {NoVisibility, 49, 50}

Point(x, y) == [present |-> TRUE, x |-> x, y |-> y, visibility |-> 90]

BasePose ==
    [i \in LandmarkIdx |->
        CASE i = 0 -> Point(50, 10)
          [] i = 1 -> Point(55, 9)
          [] i = 4 -> Point(45, 9)
          [] i = 7 -> Point(70, 10)
          [] i = 8 -> Point(30, 10)
          [] i = 11 -> Point(44, 25)
          [] i = 12 -> Point(40, 25)
          [] i = 15 -> Point(46, 50)
          [] i = 16 -> Point(38, 50)
          [] i = 23 -> Point(44, 55)
          [] i = 24 -> Point(40, 55)
          [] i = 27 -> Point(44, 90)
          [] i = 28 -> Point(40, 90)
          [] OTHER -> Point(50, 50)]

NullLandmarks == [isNull |-> TRUE, length |-> 0, at |-> BasePose]

LandmarkArray(n) == [isNull |-> FALSE, length |-> n, at |-> BasePose]

InitQuality ==
    /\ InitScan
    /\ InitLoader
    /\ InitStreams
    /\ \E cm \in CameraModes, lms \in {NullLandmarks, LandmarkArray(32), LandmarkArray(33)} :
          call = [fn |-> "checkLandmarkQualityForMode", landmarks |-> lms, mode |-> cm,
                  edits |-> 0]
    /\ returned = NoReturn

qualityUnchanged == <<scanVars, camVars, loaderVars, streamVars>>

\* the landmark array with entry i replaced
Edit(i, lm) ==
    /\ call.fn = "checkLandmarkQualityForMode"
    /\ returned = NoReturn
    /\ ~call.landmarks.isNull
    /\ call.edits < MaxEdits
    /\ lm /= call.landmarks.at[i]
    /\ call' = [call EXCEPT !.landmarks.at[i] = lm, !.edits = @ + 1]
    /\ UNCHANGED <<returned, qualityUnchanged>>

EditX ==
    \E i \in EditedXIdx, x \in EditXs :
        call.landmarks.at[i].present /\ Edit(i, [call.landmarks.at[i] EXCEPT !.x = x])

EditY ==
    \E i \in EditedYIdx, y \in EditYs :
        call.landmarks.at[i].present /\ Edit(i, [call.landmarks.at[i] EXCEPT !.y = y])

EditVisibility ==
    \E i \in EditedIdx, v \in EditVisibilities :
        call.landmarks.at[i].present /\ Edit(i, [call.landmarks.at[i] EXCEPT !.visibility = v])

\* a hole in the array
RemoveLandmark ==
    \E i \in EditedIdx :
        Edit(i, [present |-> FALSE, x |-> 0, y |-> 0, visibility |-> NoVisibility])

\* the call of checkLandmarkQualityForMode(landmarks, frameWidth, frameHeight, mode)
CheckQuality ==
    /\ call.fn = "checkLandmarkQualityForMode"
    /\ returned = NoReturn
    /\ returned' = CheckLandmarkQualityForMode(call.landmarks, call.mode)
    /\ UNCHANGED <<call, qualityUnchanged>>

NextQuality ==
    \/ EditX
    \/ EditY
    \/ EditVisibility
    \/ RemoveLandmark
    \/ CheckQuality

SpecQuality == InitQuality /\ [][NextQuality]_vars

\* ------------------------------- measurements.ts: extraction and scaling
\* Lengths in pixels are whole numbers of the model's length unit, centimetre
\* fields are written in tenths, body ratios in hundredths and face ratios in
\* thousandths, as r, r2 and the face rounding leave them.  A JavaScript number
\* that may not be finite is a record: Num(v), Infinity or NaN.

Num(v) == [kind |-> "finite", v |-> v]

Infinity == [kind |-> "Infinity", v |-> 0]

NaN == [kind |-> "NaN", v |-> 0]

\* Math.round(n / d) for d > 0: halves go up
RoundHalfUp(n, d) == (2 * n + d) \div (2 * d)

\* Math.round((n / d) * scale) / scale for n >= 0 and d >= 0, in units of 1 / scale
RoundedQuotient(n, d, scale) ==
    IF d = 0 THEN (IF n = 0 THEN NaN ELSE Infinity)
    ELSE Num(RoundHalfUp(scale * n, d))

RECURSIVE SqrtSearch(_, _, _)
SqrtSearch(n, lo, hi) ==
    IF lo >= hi THEN lo
    ELSE LET mid == (lo + hi + 1) \div 2
         IN  IF mid * mid <= n THEN SqrtSearch(n, mid, hi) ELSE SqrtSearch(n, lo, mid - 1)

\* Math.sqrt, down to the length unit
Sqrt(n) == SqrtSearch(n, 0, 46340)

\* dist(a, b, width, height)
Dist(a, b, width, height) ==
    LET dx == (a.x - b.x) * width
        dy == (a.y - b.y) * height
    IN  Sqrt(dx * dx + dy * dy)

\* midpoint(a, b), written as twice the midpoint
TwiceMidpoint(a, b) == [x |-> a.x + b.x, y |-> a.y + b.y]

\* extractFaceMeasurements; faceHeightPx = dist(earMid, mouthMid) * 1.4 is the
\* fraction 14 * twiceHeight / 20
ExtractFaceMeasurements(landmarks, frameWidth, frameHeight) ==
    LET leftEar == At(landmarks, 7)
        rightEar == At(landmarks, 8)
        leftEyeInner == At(landmarks, 1)
        rightEyeInner == At(landmarks, 4)
        mouthLeft == At(landmarks, 9)
        mouthRight == At(landmarks, 10)
        earToEarPx == Dist(leftEar, rightEar, frameWidth, frameHeight)
        innerEyeSpacingPx == Dist(leftEyeInner, rightEyeInner, frameWidth, frameHeight)
        twiceHeight == Dist(TwiceMidpoint(leftEar, rightEar),
                            TwiceMidpoint(mouthLeft, mouthRight), frameWidth, frameHeight)
    IN  IF ~Deref(<<leftEar, rightEar, leftEyeInner, rightEyeInner, mouthLeft, mouthRight>>)
        THEN TypeError
        ELSE [kind |-> "return",
              face |-> [earToEarPx |-> earToEarPx,
                        innerEyeSpacingPx |-> innerEyeSpacingPx,
                        faceHeightPx |-> [num |-> 14 * twiceHeight, den |-> 20],
                        interocularRatio |->
                            RoundedQuotient(innerEyeSpacingPx, earToEarPx, 1000),
                        facialWidthRatio |->
                            RoundedQuotient(20 * earToEarPx, 14 * twiceHeight, 1000)]]

\* mode === "upper-body" ? userHeightCm * 0.56 : userHeightCm, as a fraction
EffectiveHeight(userHeightCm, scanMode) ==
    IF scanMode = "upper-body"
    THEN [num |-> 56 * userHeightCm, den |-> 100]
    ELSE [num |-> userHeightCm, den |-> 1]

\* mutant of ScaleFactor: the test is bodyHeightPx >= 0
ScaleFactorZeroDivides(bodyHeightPx, userHeightCm, scanMode) ==
    LET effectiveHeight == EffectiveHeight(userHeightCm, scanMode)
    IN  IF bodyHeightPx >= 0
        THEN [num |-> effectiveHeight.num, den |-> effectiveHeight.den * bodyHeightPx]
        ELSE [num |-> 1, den |-> 1]

\* raw.bodyHeightPx > 0 ? effectiveHeight / raw.bodyHeightPx : 1, as a fraction
ScaleFactor(bodyHeightPx, userHeightCm, scanMode) ==
    LET effectiveHeight == EffectiveHeight(userHeightCm, scanMode)
    IN  IF bodyHeightPx > 0
        THEN [num |-> effectiveHeight.num, den |-> effectiveHeight.den * bodyHeightPx]
        ELSE [num |-> 1, den |-> 1]

\* r(px * scaleFactor), in tenths of a centimetre
ScaledCm(px, scaleFactor) ==
    IF scaleFactor.den = 0
    THEN (IF px * scaleFactor.num = 0 THEN NaN ELSE Infinity)
    ELSE Num(RoundHalfUp(10 * px * scaleFactor.num, scaleFactor.den))

\* den > 0 ? r2(num / den) : 0, of two numbers in one unit
GuardedRatio(num, den) ==
    IF den.kind = "finite" /\ den.v > 0
    THEN (IF num.kind = "finite" THEN Num(RoundHalfUp(100 * num.v, den.v)) ELSE num)
    ELSE Num(0)

ScaleMeasurements(raw, userHeightCm, scanMode) ==
    LET scaleFactor == ScaleFactor(raw.bodyHeightPx, userHeightCm, scanMode)
        shoulderWidthCm == ScaledCm(raw.shoulderWidthPx, scaleFactor)
        hipWidthCm == ScaledCm(raw.hipWidthPx, scaleFactor)
        legLengthCm == ScaledCm(raw.legLengthPx, scaleFactor)
        torsoLengthCm == ScaledCm(raw.torsoLengthPx, scaleFactor)
        armLengthCm == ScaledCm(raw.armLengthPx, scaleFactor)
        wingspanCm == ScaledCm(raw.wingspanPx, scaleFactor)
    IN  [kind |-> "return",
         measurements |->
            [shoulderWidthCm |-> shoulderWidthCm,
             hipWidthCm |-> hipWidthCm,
             legLengthCm |-> legLengthCm,
             torsoLengthCm |-> torsoLengthCm,
             armLengthCm |-> armLengthCm,
             wingspanCm |-> wingspanCm,
             shoulderToHipRatio |-> GuardedRatio(shoulderWidthCm, hipWidthCm),
             legToTorsoRatio |-> GuardedRatio(legLengthCm, torsoLengthCm),
             armspanToHeightRatio |-> GuardedRatio(wingspanCm, Num(10 * userHeightCm)),
             scaleFactor |-> scaleFactor,
             scanMode |-> scanMode]]

\* -------------------------------- measurements.ts: ellipse circumference
\* Widths are whole centimetres and semi-axes whole numbers of 1/200 cm, so that
\* width * 0.85 / 2 is 85 * width.  The result is in tenths of a centimetre.
\* With h = (a - b)^2 / (a + b)^2 the source's expression
\* PI * (a + b) * (1 + 3h / (10 + sqrt(4 - 3h))) is
\* PI * (s + 3 d^2 / (10 s + sqrt(4 s^2 - 3 d^2))) for s = a + b, d = a - b;
\* PI is taken as 355 / 113 and the inner quotient and the root are rounded down.

\* mutant of ComputeChestCircumference: 0 only when both semi-axes are <= 0
ComputeChestCircumferenceBothTest(semiWidth, semiDepth) ==
    LET a == semiWidth
        b == semiDepth
        sum == a + b
        diff == a - b
        radicand == 4 * sum * sum - 3 * diff * diff
        inner == sum + (3 * diff * diff) \div (10 * sum + Sqrt(radicand))
    IN  IF semiWidth <= 0 /\ semiDepth <= 0 THEN Num(0)
        ELSE IF sum = 0 \/ radicand < 0 THEN NaN
        ELSE Num(RoundHalfUp(355 * inner, 113 * 20))

ComputeChestCircumference(semiWidth, semiDepth) ==
    LET a == semiWidth
        b == semiDepth
        sum == a + b
        diff == a - b
        radicand == 4 * sum * sum - 3 * diff * diff
        inner == sum + (3 * diff * diff) \div (10 * sum + Sqrt(radicand))
    IN  IF semiWidth <= 0 \/ semiDepth <= 0 THEN Num(0)
        ELSE IF sum = 0 \/ radicand < 0 THEN NaN
        ELSE Num(RoundHalfUp(355 * inner, 113 * 20))

\* computeWaistCircumference, of widths in centimetres
ComputeWaistCircumference(frontHipWidthCm, sideDepthCm) ==
    LET semiWidth == 88 * frontHipWidthCm
        semiDepth == 100 * sideDepthCm
    IN  ComputeChestCircumference(semiWidth, semiDepth)

\* handlePose2Capture, chest: halfWidth, halfDepth and the circumference of them
ChestCircumferenceCm(frontShoulderWidthCm, sideShoulderWidthCm) ==
    LET halfWidth == 85 * frontShoulderWidthCm
        halfDepth == 100 * sideShoulderWidthCm
    IN  ComputeChestCircumference(halfWidth, halfDepth)

\* ------------------------- extraction and scaling on their own
\* A call of scaleMeasurements on a raw record, or the face branch of tick: the
\* quality check of a face pose, whose mouth corners were moved, and the
\* extraction from the frame it accepted.

RawRecords ==
    [shoulderWidthPx : {0, 120}, hipWidthPx : {0, 100}, legLengthPx : {0, 300},
     torsoLengthPx : {0, 200}, armLengthPx : {150}, wingspanPx : {0, 400},
     bodyHeightPx : {-3, 0, 1, 400, 600}]

UserHeights == {-170, 0, 1, 100, 170, 250}

\* video.videoWidth and video.videoHeight, in tens of pixels
FrameSizes == {[width |-> 64, height |-> 48], [width |-> 48, height |-> 64]}

\* widths in centimetres of the two poses, and semi-axes in 1/200 cm
PoseWidths == {-38, 0, 1, 38, 45}

SemiAxes == {-3800, 0, 1, 3230, 3800}

MouthXs == {47, 50, 53}

MouthYs == {6, 10, 14}

InitMeasure ==
    /\ InitScan
    /\ InitLoader
    /\ InitStreams
    /\ returned = NoReturn
    /\ \/ \E raw \in RawRecords, h \in UserHeights, sm \in ScanModes :
             call = [fn |-> "scaleMeasurements", raw |-> raw, userHeightCm |-> h,
                     mode |-> sm]
       \/ call = [fn |-> "checkLandmarkQualityForMode", landmarks |-> LandmarkArray(33),
                  mode |-> "face", edits |-> 0]
       \/ \E a \in SemiAxes, b \in SemiAxes :
             call = [fn |-> "computeChestCircumference", semiWidth |-> a, semiDepth |-> b]
       \/ \E front \in PoseWidths, side \in PoseWidths, sm \in {"chest", "waist"} :
             call = [fn |-> "handlePose2Capture", front |-> front, side |-> side,
                     selectedMode |-> sm]

\* a mouth corner elsewhere
MoveMouth ==
    \E i \in {9, 10}, x \in MouthXs, y \in MouthYs :
        Edit(i, [call.landmarks.at[i] EXCEPT !.x = x, !.y = y])

\* tick, after a valid quality check in face mode
BufferFace ==
    /\ call.fn = "checkLandmarkQualityForMode"
    /\ call.mode = "face"
    /\ returned.kind = "return"
    /\ returned.valid
    /\ \E size \in FrameSizes :
          /\ call' = [fn |-> "extractFaceMeasurements", landmarks |-> call.landmarks,
                      frameWidth |-> size.width, frameHeight |-> size.height]
          /\ returned' = ExtractFaceMeasurements(call.landmarks, size.width, size.height)
    /\ UNCHANGED qualityUnchanged

\* the call of scaleMeasurements(raw, userHeightCm, mode)
Scale ==
    /\ call.fn = "scaleMeasurements"
    /\ returned = NoReturn
    /\ returned' = ScaleMeasurements(call.raw, call.userHeightCm, call.mode)
    /\ UNCHANGED <<call, qualityUnchanged>>

\* the call of computeChestCircumference(semiWidthCm, semiDepthCm)
Circumference ==
    /\ call.fn = "computeChestCircumference"
    /\ returned = NoReturn
    /\ returned' = [kind |-> "return",
                    value |-> ComputeChestCircumference(call.semiWidth, call.semiDepth)]
    /\ UNCHANGED <<call, qualityUnchanged>>

\* the circumference handlePose2Capture adds to the front pose's measurements
Pose2Circumference ==
    /\ call.fn = "handlePose2Capture"
    /\ returned = NoReturn
    /\ returned' = [kind |-> "return",
                    value |-> IF call.selectedMode = "chest"
                              THEN ChestCircumferenceCm(call.front, call.side)
                              ELSE ComputeWaistCircumference(call.front, call.side)]
    /\ UNCHANGED <<call, qualityUnchanged>>

NextMeasure ==
    \/ MoveMouth
    \/ CheckQuality
    \/ BufferFace
    \/ Scale
    \/ Circumference
    \/ Pose2Circumference

SpecMeasure == InitMeasure /\ [][NextMeasure]_vars

\* ------------------------------------------- measurements.ts: smoothing
\* The fields are JavaScript numbers, binary floating point: every sum and
\* every quotient is rounded to the nearest number of the format, ties to the
\* even significand.  The format here has SignificandBits bits where a double
\* has 53, and its numbers are whole multiples of its smallest one.

SignificandBits == 4

RECURSIVE Pow2(_)
Pow2(n) == IF n = 0 THEN 1 ELSE 2 * Pow2(n - 1)

\* n / d rounded to a whole number, a tie to the even one
RoundHalfEven(n, d) ==
    LET floor == n \div d
        rest == n - floor * d
    IN  IF 2 * rest < d THEN floor
        ELSE IF 2 * rest > d THEN floor + 1
        ELSE IF floor % 2 = 0 THEN floor ELSE floor + 1

\* the spacing of the format's numbers around n / d, not below q
RECURSIVE Spacing(_, _, _)
Spacing(n, d, q) ==
    IF n < d * q * Pow2(SignificandBits) THEN q ELSE Spacing(n, d, 2 * q)

\* the format's number nearest to n / d  (n >= 0, d > 0)
Float(n, d) ==
    LET q == Spacing(n, d, 1)
    IN  q * RoundHalfEven(n, d * q)

RawFields ==
    {"shoulderWidthPx", "hipWidthPx", "legLengthPx", "torsoLengthPx",
     "armLengthPx", "wingspanPx", "bodyHeightPx"}

\* the loop of averageRawMeasurements: sum.x += f.x for every field
RECURSIVE SumRaw(_, _)
SumRaw(sum, frames) ==
    IF frames = <<>> THEN sum
    ELSE SumRaw([x \in RawFields |-> Float(sum[x] + Head(frames)[x], 1)], Tail(frames))

NoFramesError == [kind |-> "throw", reason |-> "No frames to average"]

AverageRawMeasurements(frames) ==
    IF Len(frames) = 0 THEN NoFramesError
    ELSE LET sum == SumRaw([x \in RawFields |-> 0], frames)
             n == Len(frames)
         IN  [kind |-> "return", value |-> [x \in RawFields |-> Float(sum[x], n)]]

\* ------------------------------------------------ the averager on its own
MaxBuffered == 4

\* raw records of numbers of the format
AveragedFrames ==
    { [shoulderWidthPx |-> 14, hipWidthPx |-> 10, legLengthPx |-> 28,
       torsoLengthPx |-> 20, armLengthPx |-> 22, wingspanPx |-> 56, bodyHeightPx |-> 60],
      [shoulderWidthPx |-> 15, hipWidthPx |-> 10, legLengthPx |-> 30,
       torsoLengthPx |-> 18, armLengthPx |-> 22, wingspanPx |-> 52, bodyHeightPx |-> 60],
      [shoulderWidthPx |-> 1, hipWidthPx |-> 10, legLengthPx |-> 2,
       torsoLengthPx |-> 1, armLengthPx |-> 22, wingspanPx |-> 5, bodyHeightPx |-> 4] }

InitAverage ==
    /\ InitScan
    /\ InitLoader
    /\ InitStreams
    /\ call = [fn |-> "averageRawMeasurements", frames |-> <<>>]
    /\ returned = NoReturn

\* one more extracted record in the sequence to be averaged
PushRaw(f) ==
    /\ call.fn = "averageRawMeasurements"
    /\ returned = NoReturn
    /\ Len(call.frames) < MaxBuffered
    /\ call' = [call EXCEPT !.frames = Append(@, f)]
    /\ UNCHANGED <<returned, qualityUnchanged>>

AverageRaw ==
    /\ call.fn = "averageRawMeasurements"
    /\ returned = NoReturn
    /\ returned' = AverageRawMeasurements(call.frames)
    /\ UNCHANGED <<call, qualityUnchanged>>

NextAverage ==
    \/ \E f \in AveragedFrames : PushRaw(f)
    \/ AverageRaw

SpecAverage == InitAverage /\ [][NextAverage]_vars

\* ------------------------------------------------- badges.ts: statistics
\* Real numbers are whole multiples of 1 / Unit: a product is cut to a multiple
\* of it, and so is a quotient.  z, erf and the distribution function carry
\* this unit; value, mean and stddev are whole numbers of one common unit.

Unit == 10000

NegInfinity == [kind |-> "-Infinity", v |-> 0]

\* a * b of two numbers in 1 / Unit, without leaving 32 bits
Mul(a, b) == (a \div Unit) * b + ((a % Unit) * b) \div Unit

\* the series 1 + f + f^2 / 2 + ... of Math.exp(f) from its term of rank i on
RECURSIVE ExpSeries(_, _, _)
ExpSeries(f, term, i) ==
    IF i > 8 THEN 0
    ELSE LET next == (term * f) \div (Unit * i)
         IN  next + ExpSeries(f, next, i + 1)

\* r * Math.exp(-k) for a whole k: Math.exp(-1) is 0.3679
RECURSIVE TimesExpNeg(_, _)
TimesExpNeg(r, k) == IF k = 0 THEN r ELSE TimesExpNeg(Mul(r, 3679), k - 1)

\* Math.exp(-u) for u >= 0, which is 0 in this unit from u = 36 on
ExpNeg(u) ==
    IF u >= 36 * Unit THEN 0
    ELSE TimesExpNeg((Unit * Unit) \div (Unit + ExpSeries(u % Unit, Unit, 1)), u \div Unit)

Erf(x0) ==
    LET sign == IF x0 >= 0 THEN 1 ELSE -1
        x == Abs(x0)
        a1 == 2548
        a2 == -2845
        a3 == 14214
        a4 == -14532
        a5 == 10614
        p == 3276
        t == (Unit * Unit) \div (Unit + Mul(x, p))
        exp == IF x >= 6 * Unit THEN 0 ELSE ExpNeg(Mul(x, x))
        horner == Mul(Mul(Mul(Mul(a5, t) + a4, t) + a3, t) + a2, t) + a1
        y == Unit - Mul(Mul(horner, t), exp)
    IN  sign * y

\* mutant of NormalCDF: 1 + erf(z / Math.sqrt(2))
NormalCDFNoHalf(z) ==
    IF z = Infinity THEN 2 * Unit
    ELSE IF z = NegInfinity THEN 0
    ELSE LET x == Mul(Abs(z.v), 7071)
         IN  Unit + Erf(IF z.v >= 0 THEN x ELSE -x)

\* 0.5 * (1 + erf(z / Math.sqrt(2))), 1 / Math.sqrt(2) being 0.7071
NormalCDF(z) ==
    IF z = Infinity THEN Unit
    ELSE IF z = NegInfinity THEN 0
    ELSE LET x == Mul(Abs(z.v), 7071)
         IN  (Unit + Erf(IF z.v >= 0 THEN x ELSE -x)) \div 2

\* (value - mean) / stddev as JavaScript divides
Divide(n, d) ==
    IF d = 0
    THEN IF n = 0 THEN NaN ELSE IF n > 0 THEN Infinity ELSE NegInfinity
    ELSE LET q == (Abs(n) * Unit) \div Abs(d)
         IN  Num(IF (n >= 0) = (d > 0) THEN q ELSE -q)

\* mutant of ComputePercentile: the test is stddev < 0
ComputePercentileStrictTest(value, mean, stddev) ==
    IF stddev < 0 THEN Num(50)
    ELSE LET z == Divide(value - mean, stddev)
         IN  IF z = NaN THEN NaN
             ELSE Num(RoundHalfUp(NormalCDF(z) * 100, Unit))

ComputePercentile(value, mean, stddev) ==
    IF stddev <= 0 THEN Num(50)
    ELSE LET z == Divide(value - mean, stddev)
         IN  IF z = NaN THEN NaN
             ELSE Num(RoundHalfUp(NormalCDF(z) * 100, Unit))

\* a % b of JavaScript: the sign is the dividend's
Rem(a, b) == IF a >= 0 THEN a % b ELSE -((-a) % b)

\* String(n) of a whole n >= 0, one string per character
RECURSIVE NumberToString(_)
NumberToString(n) ==
    LET digit == <<"0", "1", "2", "3", "4", "5", "6", "7", "8", "9">>[(n % 10) + 1]
    IN  IF n < 10 THEN <<digit>> ELSE Append(NumberToString(n \div 10), digit)

Undefined == "undefined"

\* array[i], undefined outside the array
Index(array, i) == IF i \in 0..(Len(array) - 1) THEN array[i + 1] ELSE Undefined

\* a || b of strings that are not empty
OrElse(a, b) == IF a = Undefined THEN b ELSE a

\* mutant of OrdinalSuffix: the suffix is that of the last digit
OrdinalSuffixLastDigit(n) ==
    LET s == <<"th", "st", "nd", "rd">>
        v == Rem(n, 100)
    IN  NumberToString(n) \o <<OrElse(Index(s, Rem(v, 10)), Index(s, 0))>>

OrdinalSuffix(n) ==
    LET s == <<"th", "st", "nd", "rd">>
        v == Rem(n, 100)
    IN  NumberToString(n) \o
          <<OrElse(OrElse(Index(s, Rem(v - 20, 10)), Index(s, v)), Index(s, 0))>>

\* ------------------------------------------------ measurements.ts: dataset
COUNTRIES == {"Global", "USA", "South Korea", "Japan", "Germany", "Brazil"}

AGE_RANGES == {"18-24", "25-34", "35-44", "45-54", "55+"}

Sexes == {"male", "female", "other"}

\* the template string country|sex|ageRange
DatasetKey(country, sex, ageRange) == <<country, sex, ageRange>>

\* DATASET has one entry for every country, sex and age range; an entry is
\* known by its key
DATASET ==
    [key \in COUNTRIES \X Sexes \X AGE_RANGES |-> [kind |-> "stats", key |-> key]]

UndefinedStats == [kind |-> "undefined", key |-> <<>>]

\* DATASET[key]
Lookup(key) == IF key \in DOMAIN DATASET THEN DATASET[key] ELSE UndefinedStats

\* a ?? b
Nullish(a, b) == IF a = UndefinedStats THEN b ELSE a

\* mutant of GetStats: no default entry behind the Global one
GetStatsNoDefault(country, sex, ageRange) ==
    LET key == DatasetKey(country, sex, ageRange)
        fallback == DatasetKey("Global", sex, ageRange)
    IN  IF Lookup(key) /= UndefinedStats THEN Lookup(key)
        ELSE Lookup(fallback)

GetStats(country, sex, ageRange) ==
    LET key == DatasetKey(country, sex, ageRange)
        fallback == DatasetKey("Global", sex, ageRange)
    IN  IF Lookup(key) /= UndefinedStats THEN Lookup(key)
        ELSE Nullish(Lookup(fallback), Lookup(DatasetKey("Global", "other", "25-34")))

\* ------------------------------------------------ the statistics on their own
PercentileValues == {0, 50, 80, 90, 100, 110, 120, 150, 200}

PercentileMeans == {90, 100}

PercentileStddevs == {-10, 0, 1, 10, 15}

MaxOrdinal == 125

\* arguments inside and outside the types Country, Sex and AgeRange
CountryArguments == COUNTRIES \cup {"France"}

SexArguments == Sexes \cup {"prefer-not-to-say"}

AgeRangeArguments == AGE_RANGES \cup {"65+"}

InitStats ==
    /\ InitScan
    /\ InitLoader
    /\ InitStreams
    /\ returned = NoReturn
    /\ \/ \E value \in PercentileValues, mean \in PercentileMeans,
             stddev \in PercentileStddevs :
             call = [fn |-> "computePercentile", value |-> value, mean |-> mean,
                     stddev |-> stddev]
       \/ \E n \in 0..MaxOrdinal : call = [fn |-> "ordinalSuffix", n |-> n, labelled |-> "none"]
       \/ \E country \in CountryArguments, sex \in SexArguments,
             ageRange \in AgeRangeArguments :
             call = [fn |-> "getStats", country |-> country, sex |-> sex,
                     ageRange |-> ageRange]

Percentile ==
    /\ call.fn = "computePercentile"
    /\ returned = NoReturn
    /\ returned' = [kind |-> "return",
                    value |-> ComputePercentile(call.value, call.mean, call.stddev)]
    /\ UNCHANGED <<call, qualityUnchanged>>

\* the percentile's label: ordinalSuffix of a returned percentile
Label ==
    /\ call.fn = "computePercentile"
    /\ returned /= NoReturn
    /\ returned.value.kind = "finite"
    /\ call' = [fn |-> "ordinalSuffix", n |-> returned.value.v,
                labelled |-> "percentile"]
    /\ returned' = NoReturn
    /\ UNCHANGED qualityUnchanged

Ordinal ==
    /\ call.fn = "ordinalSuffix"
    /\ returned = NoReturn
    /\ returned' = [kind |-> "return", value |-> OrdinalSuffix(call.n)]
    /\ UNCHANGED <<call, qualityUnchanged>>

Stats ==
    /\ call.fn = "getStats"
    /\ returned = NoReturn
    /\ returned' = [kind |-> "return",
                    value |-> GetStats(call.country, call.sex, call.ageRange)]
    /\ UNCHANGED <<call, qualityUnchanged>>

NextStats ==
    \/ Percentile
    \/ Label
    \/ Ordinal
    \/ Stats

SpecStats == InitStats /\ [][NextStats]_vars

\* ------------------------------------------------------ badges.ts: badges
\* x >= c and x <= c for a ratio x in hundredths
AtLeast(x, c) == IF x.kind = "finite" THEN x.v >= c ELSE x.kind = "Infinity"

AtMost(x, c) == x.kind = "finite" /\ x.v <= c

\* the ids of the badges, in the order they are pushed
ComputeBadges(m) ==
    LET shr == m.shoulderToHipRatio
        ltr == m.legToTorsoRatio
        ahr == m.armspanToHeightRatio
        frame == IF AtLeast(shr, 135) THEN <<"broad-shouldered">>
                 ELSE IF AtMost(shr, 88) THEN <<"wide-hipped">>
                 ELSE IF AtLeast(shr, 110) /\ ~AtLeast(shr, 135) THEN <<"athletic-frame">>
                 ELSE <<"balanced-frame">>
        legs == IF AtLeast(ltr, 170) THEN <<"long-legged">>
                ELSE IF AtMost(ltr, 125) THEN <<"long-torso">>
                ELSE <<"proportional-body">>
        reach == IF AtLeast(ahr, 105) THEN <<"long-reach">>
                 ELSE IF AtMost(ahr, 95) THEN <<"compact-limbs">>
                 ELSE <<>>
        sprinter == IF AtLeast(ltr, 160) /\ AtLeast(ahr, 102) THEN <<"sprinter-build">>
                    ELSE <<>>
    IN  frame \o legs \o reach \o sprinter

\* ------------------------------------------- results page and share card
\* m.value > 0, and the truth of a number
Positive(x) == IF x.kind = "finite" THEN x.v > 0 ELSE x.kind = "Infinity"

Truthy(x) == x.kind = "Infinity" \/ (x.kind = "finite" /\ x.v /= 0)

Metric(label, value) == [label |-> label, value |-> value]

\* the metrics of a list whose test holds, as a set: every one of them is
\* drawn by a MetricChart, which calls computePercentile on its value
Shown(metrics) == {metrics[i] : i \in {j \in DOMAIN metrics : Positive(metrics[j].value)}}

\* ShareCard: four metrics, each passed to computePercentile, and three badges
ShareCard(measurements, badges) ==
    [percentiles |->
        {Metric("Shoulder Width", measurements.shoulderWidthCm),
         Metric("Hip Width", measurements.hipWidthCm),
         Metric("Leg Length", measurements.legLengthCm),
         Metric("Torso Length", measurements.torsoLengthCm)},
     badges |-> SubSeq(badges, 1, Min(3, Len(badges)))]

NoShareCard == [percentiles |-> {}, badges |-> <<>>]

\* ResultsPage: what it passes to computePercentile, the badges it lists and
\* the share card it mounts
ResultsPage(session, showShareCard) ==
    LET measurements == session.measurements
        scanMode == session.scanMode
        isFaceMode == scanMode = "face"
        isUpperBody == scanMode = "upper-body"
        isChestMode == scanMode = "chest"
        isWaistMode == scanMode = "waist"
        badges == IF isFaceMode \/ isChestMode \/ isWaistMode THEN <<>>
                  ELSE ComputeBadges(measurements)
        bodyMetrics ==
            Shown(<<Metric("Shoulder Width", measurements.shoulderWidthCm),
                    Metric("Hip Width", measurements.hipWidthCm)>>
                  \o (IF ~isUpperBody
                      THEN <<Metric("Leg Length", measurements.legLengthCm)>> ELSE <<>>)
                  \o <<Metric("Torso Length", measurements.torsoLengthCm),
                       Metric("Arm Length", measurements.armLengthCm)>>
                  \o (IF ~isUpperBody
                      THEN <<Metric("Wingspan", measurements.wingspanCm)>> ELSE <<>>))
        ratioMetrics ==
            Shown(<<Metric("Shoulder / Hip Ratio", measurements.shoulderToHipRatio)>>
                  \o (IF ~isUpperBody
                      THEN <<Metric("Leg / Torso Ratio", measurements.legToTorsoRatio)>>
                      ELSE <<>>))
        faceMetrics ==
            IF isFaceMode /\ session.face
            THEN {Metric("Eye Spacing Ratio", Num(440)), Metric("Facial Width Ratio", Num(820))}
            ELSE {}
        branch == IF isWaistMode /\ Truthy(session.circumferenceCm) THEN "waist"
                  ELSE IF isChestMode /\ Truthy(session.circumferenceCm) THEN "chest"
                  ELSE IF isFaceMode /\ session.face THEN "face"
                  ELSE "body"
    IN  [kind |-> "return",
         percentiles |->
            CASE branch = "waist" -> {Metric("Waist Circumference", session.circumferenceCm)}
              [] branch = "chest" -> {Metric("Chest Circumference", session.circumferenceCm)}
              [] branch = "face" -> faceMetrics
              [] OTHER -> bodyMetrics \cup ratioMetrics,
         badges |-> IF branch = "body" THEN badges ELSE <<>>,
         canShare |-> ~isFaceMode /\ ~isChestMode /\ ~isWaistMode,
         card |-> IF ~isFaceMode /\ ~isChestMode /\ ~isWaistMode /\ showShareCard
                  THEN ShareCard(measurements, badges) ELSE NoShareCard]

\* ------------------------------------------------ the results on their own
\* averaged raw records of a full-body pose
ResultRaws ==
    [shoulderWidthPx : {100, 140}, hipWidthPx : {100}, legLengthPx : {250, 330},
     torsoLengthPx : {180}, armLengthPx : {150}, wingspanPx : {380, 420},
     bodyHeightPx : {400}]

ResultHeights == {160, 170}

\* extractUpperBodyMeasurements: legLengthPx is 0
UpperBodyRaw(raw) == [raw EXCEPT !.legLengthPx = 0]

FaceOnly ==
    [shoulderWidthCm |-> Num(0), hipWidthCm |-> Num(0), legLengthCm |-> Num(0),
     torsoLengthCm |-> Num(0), armLengthCm |-> Num(0), wingspanCm |-> Num(0),
     shoulderToHipRatio |-> Num(0), legToTorsoRatio |-> Num(0),
     armspanToHeightRatio |-> Num(0), scaleFactor |-> [num |-> 1, den |-> 1],
     scanMode |-> "face"]

\* the sessions saveSession stores, by the mode selected on the scan page
Sessions ==
    LET scaled(raw, height, sm) == ScaleMeasurements(raw, height, sm).measurements
    IN       {[scanMode |-> "full-body", measurements |-> scaled(raw, height, "full-body"),
               face |-> FALSE, circumferenceCm |-> Num(0)] :
                 raw \in ResultRaws, height \in ResultHeights}
        \cup {[scanMode |-> "upper-body",
               measurements |-> scaled(UpperBodyRaw(raw), height, "upper-body"),
               face |-> FALSE, circumferenceCm |-> Num(0)] :
                 raw \in ResultRaws, height \in ResultHeights}
        \cup {[scanMode |-> "face", measurements |-> FaceOnly,
               face |-> TRUE, circumferenceCm |-> Num(0)]}
        \cup {[scanMode |-> sm,
               measurements |-> scaled(UpperBodyRaw(raw), height, "upper-body"),
               face |-> FALSE, circumferenceCm |-> Num(c)] :
                 raw \in ResultRaws, height \in ResultHeights,
                 sm \in {"chest", "waist"}, c \in {0, 950}}

InitResults ==
    /\ InitScan
    /\ InitLoader
    /\ InitStreams
    /\ returned = NoReturn
    /\ \E session \in Sessions :
          call = [fn |-> "ResultsPage", session |-> session, showShareCard |-> FALSE]

\* a render of the results page
RenderResults ==
    /\ call.fn = "ResultsPage"
    /\ returned = NoReturn
    /\ returned' = ResultsPage(call.session, call.showShareCard)
    /\ UNCHANGED <<call, qualityUnchanged>>

\* the Generate Share Card button
GenerateShareCard ==
    /\ call.fn = "ResultsPage"
    /\ returned /= NoReturn
    /\ returned.canShare
    /\ ~call.showShareCard
    /\ call' = [call EXCEPT !.showShareCard = TRUE]
    /\ returned' = NoReturn
    /\ UNCHANGED qualityUnchanged

NextResults ==
    \/ RenderResults
    \/ GenerateShareCard

SpecResults == InitResults /\ [][NextResults]_vars

\* --------------------------------------- CameraView: start-camera effect
\* A commit and the effects it schedules are one step here.  The effect has
\* run past its first line, and so has a cleanup, exactly when isLoading and
\* cameraError are both false.

MaxCameras == 2

NewCamera ==
    [mounted |-> TRUE, isLoading |-> TRUE, cameraError |-> FALSE,
     position |-> "idle", streamRef |-> 0, cleanup |-> FALSE]

\* streamRef.current?.getTracks().forEach((t) => t.stop())
StopTracks(ref) ==
    IF ref = 0 THEN streams ELSE [streams EXCEPT ![ref].state = "stopped"]

streamUnchanged == <<scanVars, camVars, loaderVars, libVars>>

\* ScanPage mounts a CameraView: the effect returns at once, isLoading being true
MountStream ==
    /\ Len(cameras) < MaxCameras
    /\ \A i \in DOMAIN cameras : ~cameras[i].mounted
    /\ cameras' = Append(cameras, NewCamera)
    /\ UNCHANGED <<streams, streamUnchanged>>

\* init(): the pose model is loaded; the effect runs startCamera up to its
\* first getUserMedia
PoseLoaded(i) ==
    /\ i \in DOMAIN cameras
    /\ cameras[i].mounted /\ cameras[i].isLoading
    /\ cameras' = [cameras EXCEPT ![i].isLoading = FALSE,
                                  ![i].position = "request1",
                                  ![i].cleanup = TRUE]
    /\ UNCHANGED <<streams, streamUnchanged>>

\* init(): the pose model failed to load; the effect returns at once
PoseFailed(i) ==
    /\ i \in DOMAIN cameras
    /\ cameras[i].mounted /\ cameras[i].isLoading
    /\ cameras' = [cameras EXCEPT ![i].isLoading = FALSE, ![i].cameraError = TRUE]
    /\ UNCHANGED <<streams, streamUnchanged>>

\* getUserMedia resolves: streamRef.current = stream, then video.play()
GetUserMediaResolves(i) ==
    /\ i \in DOMAIN cameras
    /\ cameras[i].position \in {"request1", "request2"}
    /\ streams' = Append(streams, [owner |-> i, state |-> "live"])
    /\ cameras' = [cameras EXCEPT ![i].streamRef = Len(streams) + 1,
                                  ![i].position = "play"]
    /\ UNCHANGED streamUnchanged

\* the catch of startCamera: setCameraError(msg); in a mounted CameraView the
\* changed cameraError runs the effect's cleanup and the effect returns at once
Fail(i) ==
    IF cameras[i].mounted
    THEN /\ streams' = IF cameras[i].cleanup THEN StopTracks(cameras[i].streamRef)
                       ELSE streams
         /\ cameras' = [cameras EXCEPT ![i].position = "failed",
                                       ![i].cameraError = TRUE,
                                       ![i].streamRef = IF cameras[i].cleanup THEN 0 ELSE @,
                                       ![i].cleanup = FALSE]
    ELSE /\ cameras' = [cameras EXCEPT ![i].position = "failed"]
         /\ UNCHANGED streams

\* getUserMedia rejects: the first time the plain constraints are tried
GetUserMediaRejects(i) ==
    /\ i \in DOMAIN cameras
    /\ cameras[i].position \in {"request1", "request2"}
    /\ IF cameras[i].position = "request1"
       THEN /\ cameras' = [cameras EXCEPT ![i].position = "request2"]
            /\ UNCHANGED streams
       ELSE Fail(i)
    /\ UNCHANGED streamUnchanged

\* video.play() resolves, or rejects with an AbortError
PlayEnds(i) ==
    /\ i \in DOMAIN cameras
    /\ cameras[i].position = "play"
    /\ cameras' = [cameras EXCEPT ![i].position = "done"]
    /\ UNCHANGED <<streams, streamUnchanged>>

\* video.play() rejects with another error
PlayFails(i) ==
    /\ i \in DOMAIN cameras
    /\ cameras[i].position = "play"
    /\ Fail(i)
    /\ UNCHANGED streamUnchanged

\* the CameraView is unmounted: the cleanup of the effect, if it has one
UnmountStream(i) ==
    /\ i \in DOMAIN cameras
    /\ cameras[i].mounted
    /\ streams' = IF cameras[i].cleanup THEN StopTracks(cameras[i].streamRef) ELSE streams
    /\ cameras' = [cameras EXCEPT ![i].mounted = FALSE,
                                  ![i].streamRef = IF cameras[i].cleanup THEN 0 ELSE @,
                                  ![i].cleanup = FALSE]
    /\ UNCHANGED streamUnchanged

NextStream ==
    \/ MountStream
    \/ \E i \in 1..MaxCameras : PoseLoaded(i)
    \/ \E i \in 1..MaxCameras : PoseFailed(i)
    \/ \E i \in 1..MaxCameras : GetUserMediaResolves(i)
    \/ \E i \in 1..MaxCameras : GetUserMediaRejects(i)
    \/ \E i \in 1..MaxCameras : PlayEnds(i)
    \/ \E i \in 1..MaxCameras : PlayFails(i)
    \/ \E i \in 1..MaxCameras : UnmountStream(i)

SpecStream == Init /\ [][NextStream]_vars

\* ================================================================= claims

\* ---- C1 (Spec).  In the frame loop an accepted frame sets the good-frame
\* counter to min(counter + 1, requiredGoodFrames), a rejected frame sets it to
\* max(0, counter - 2) and a no-pose frame to 0, so that the counter stays within
\* 0..requiredGoodFrames after any sequence of frames.
C1_FrameStep ==
    (mounted /\ mounted') =>
        /\ accepted' = accepted + 1 =>
              goodFrameCountRef' = Min(goodFrameCountRef + 1, requiredGoodFrames)
        /\ accepted' = accepted =>
              \/ goodFrameCountRef' = goodFrameCountRef
              \/ goodFrameCountRef' = Max(0, goodFrameCountRef - 2)
              \/ goodFrameCountRef' = 0 /\ rawFrameBuffer' = <<>> /\ faceFrameBuffer' = <<>>

C1_CounterInRange ==
    /\ [](mounted => goodFrameCountRef \in 0..requiredGoodFrames)
    /\ [][C1_FrameStep]_vars

\* C1's case: more frames were accepted than the counter shows, a clamp has acted
C1_Witness ==
    mounted /\ goodFrameCountRef = requiredGoodFrames /\ accepted = requiredGoodFrames + 1

\* ---- C2 (Spec).  After every processed frame the Ready signal canCapture is
\* true exactly when the good-frame counter is >= requiredGoodFrames.
C2_ReadyIffThreshold ==
    mounted => (canCapture <=> goodFrameCountRef >= requiredGoodFrames)

\* C2's case: a rejected frame has just left Ready, which the last render still shows
C2_Witness ==
    /\ mounted /\ view.canCapture /\ ~canCapture
    /\ goodFrameCountRef = requiredGoodFrames - 2

\* ---- C3 (Spec).  The capture routine (handleCapture reaching averaging and
\* onCapture) runs only when the good-frame counter is >= requiredGoodFrames at
\* that moment.
C3_CaptureOnlyWhenReady ==
    lastCapture.by /= "none" => lastCapture.counter >= requiredGoodFrames

\* ---- C4 (Spec).  No averager is ever called with an empty frame sequence, every
\* capture averages at least one frame, and while Ready holds the active buffer
\* holds at least min(requiredGoodFrames, MAX_BUFFER) frames.
C4_AveragerNeverEmpty ==
    /\ ~averagerError
    /\ lastCapture.by /= "none" => lastCapture.frames >= 1
    /\ (mounted /\ canCapture) =>
          Len(ActiveBuffer) >= Min(requiredGoodFrames, MAX_BUFFER)

\* C4's case: a capture that ran outside Ready, on a buffer that a no-pose frame
\* had emptied and later frames refilled only in part
C4_Witness ==
    /\ lastCapture.by /= "none"
    /\ lastCapture.frames < requiredGoodFrames
    /\ ~lastCapture.ready

\* ---- C5 (SpecFrames).  Each frame buffer holds at most MAX_BUFFER entries, and
\* holds the most recently accepted frames in arrival order: its entries are
\* consecutive arrival numbers ending at the newest accepted frame, so a push on a
\* full buffer has removed the oldest entry.
C5_Recent(buf) ==
    /\ Len(buf) <= MAX_BUFFER
    /\ \A i \in 1..Len(buf) : buf[i] = accepted - Len(buf) + i

C5_BufferBounded ==
    C5_Recent(rawFrameBuffer) /\ C5_Recent(faceFrameBuffer)

\* C5's case: a full buffer whose oldest entries were evicted
C5_Witness ==
    Len(ActiveBuffer) = MAX_BUFFER /\ Head(ActiveBuffer) > 1

\* ---- C6 (Spec).  In auto-capture modes leaving Ready before the countdown
\* reaches zero cancels the countdown: a capture fired by the countdown happens
\* only while Ready holds.
C6_CountdownCancelledOnLeave ==
    (AutoCapture(mode) /\ lastCapture.by = "countdown") => lastCapture.ready

\* ---- C7 (Spec).  In manual-capture modes the countdown is never started, and a
\* capture happens only through the capture button, pressed while Ready holds.
C7_ManualTriggerOnly ==
    (mounted /\ ~AutoCapture(mode)) =>
        /\ countdown = NoCountdown
        /\ view.countdown = NoCountdown
        /\ ~timer
        /\ lastCapture.by /= "none" => (lastCapture.by = "button" /\ lastCapture.ready)

\* ---- C8 (Spec).  Whenever a scan is started or restarted no CameraView of an
\* earlier scan survives into it, and the CameraView mounted for it begins at the
\* initial capture state, in the mode of the scan that was started.
C8_Fresh ==
    /\ goodFrameCountRef = 0
    /\ rawFrameBuffer = <<>>
    /\ faceFrameBuffer = <<>>
    /\ ~canCapture
    /\ countdown = NoCountdown
    /\ ~isCapturing
    /\ ~timer
    /\ captures = 0
    /\ mode = CameraModeOf(selectedMode, chestPose)
    /\ requiredGoodFrames = RequiredGoodFrames(selectedMode)

C8_StartStep ==
    /\ (step /= "scanning" /\ step' = "scanning") => ~mounted'
    /\ (~mounted /\ mounted') => C8_Fresh'

C8_ResetOnStart == [][C8_StartStep]_vars

\* C8's case: the side pose of a chest scan has begun, after a front pose that
\* had buffered frames and captured
C8_Witness ==
    /\ mounted /\ mode = "chest-side"
    /\ frontMeasurements /= NoMeasurement
    /\ goodFrameCountRef = 0 /\ rawFrameBuffer = <<>>

\* ---- C9 (SpecLoad).  Calls of loadPoseLandmarker are deduplicated: at most one
\* load is in flight, a call made while a load is pending awaits that load and
\* gets its outcome, and once a load has succeeded no further load starts and
\* every call that gets an instance gets the one cached instance.
C9_Pending == {l \in 1..Len(loads) : loads[l] = "pending"}

C9_Deduplicated ==
    /\ Cardinality(C9_Pending) <= 1
    /\ \A l \in C9_Pending : loadPromiseMemo = l
    /\ \A c \in 1..Len(callers) :
          /\ callers[c].result = "instance" => callers[c].value = poseLandmarkerMemo
          /\ (callers[c].result = "error") => loads[callers[c].awaits] = "rejected"
    /\ poseLandmarkerMemo /= 0 =>
          /\ loads[poseLandmarkerMemo] = "fulfilled"
          /\ Len(loads) = poseLandmarkerMemo

\* C9's case: two callers joined one load and both got its instance, a third
\* call was served from the cache
C9_Witness ==
    /\ Len(loads) = 1
    /\ Cardinality({c \in 1..Len(callers) :
                      callers[c].awaits = 1 /\ callers[c].result = "instance"}) >= 2
    /\ \E c \in 1..Len(callers) : callers[c].atCall = "cached"

\* ---- C10 (SpecLoad).  A failed load clears the memoized promise: no call is
\* ever handed a promise that was already rejected when it called, so the first
\* call after a failure starts a new load, also when several callers awaited
\* the failed one.
C10_RetryAfterFailure ==
    /\ loadPromiseMemo /= 0 => loads[loadPromiseMemo] /= "rejected"
    /\ \A c \in 1..Len(callers) : callers[c].atCall /= "rejected"

\* C10's case: two callers awaited a load that failed, and a call made after
\* the failure started a second load, which succeeded and was delivered
C10_Witness ==
    /\ Len(loads) >= 2 /\ loads[1] = "rejected" /\ loads[2] = "fulfilled"
    /\ Cardinality({c \in 1..Len(callers) :
                      callers[c].awaits = 1 /\ callers[c].result = "error"}) >= 2
    /\ \E c \in 1..Len(callers) : callers[c].awaits = 2 /\ callers[c].result = "instance"

\* ---- helpers of the quality-check claims: a checkLandmarkQualityForMode call
\* has ended, on an array of at least 33 entries, in one of the given modes
C_Checked(modes) ==
    /\ call.fn = "checkLandmarkQualityForMode"
    /\ returned /= NoReturn
    /\ ~call.landmarks.isNull
    /\ call.landmarks.length >= 33
    /\ call.mode \in modes

\* landmark i is there and its visibility is >= 0.5 or absent
C_Visible(i) ==
    /\ call.landmarks.at[i].present
    /\ \/ call.landmarks.at[i].visibility = NoVisibility
       \/ call.landmarks.at[i].visibility >= 50

C_X(i) == call.landmarks.at[i].x

C_Y(i) == call.landmarks.at[i].y

\* ---- C11 (SpecQuality).  For every camera mode and every landmark input (null,
\* shorter than 33, or 33 and more entries some of which are missing)
\* checkLandmarkQualityForMode returns a FrameQuality and never throws.
C11_NeverThrows ==
    returned /= NoReturn => returned.kind = "return"

\* ---- C12 (SpecQuality).  In every camera mode a landmark set that is null or
\* has fewer than 33 entries is rejected with the reason "Body not detected",
\* whatever its entries are.
C12_BodyNotDetected ==
    (/\ call.fn = "checkLandmarkQualityForMode"
     /\ returned /= NoReturn
     /\ (call.landmarks.isNull \/ call.landmarks.length < 33))
    => returned = [kind |-> "return", valid |-> FALSE, reason |-> "Body not detected"]

\* C12's case: a 32-entry array whose nose entry is a hole, which a mode's own
\* check would not have answered with "Body not detected"
C12_Witness ==
    /\ call.fn = "checkLandmarkQualityForMode"
    /\ returned /= NoReturn
    /\ ~call.landmarks.isNull /\ call.landmarks.length = 32
    /\ ~call.landmarks.at[0].present
    /\ call.mode = "chest-side"

\* ---- C13 (SpecQuality).  In full-body mode a set of at least 33 landmarks with
\* nose, shoulders, hips and ankles visible is accepted exactly when
\* nose.y >= 0.08, max(ankle.y) <= 0.92 and max(ankle.y) - nose.y is in
\* [0.4, 0.98]; with nose.y < 0.08 it is rejected with "Move back - head cut off"
\* whatever the ankles are.
C13_FullBodyAccepts ==
    (C_Checked({"full-body"}) /\ \A i \in {0, 11, 12, 23, 24, 27, 28} : C_Visible(i)) =>
        LET maxAnkle == IF C_Y(27) > C_Y(28) THEN C_Y(27) ELSE C_Y(28)
        IN  /\ returned.kind = "return"
            /\ returned.valid <=>
                  /\ C_Y(0) >= 8
                  /\ maxAnkle <= 92
                  /\ maxAnkle - C_Y(0) >= 40
                  /\ maxAnkle - C_Y(0) <= 98
            /\ C_Y(0) < 8 => returned.reason = "Move back - head cut off"

\* C13's case: the head is cut off and so are the feet
C13_Witness ==
    /\ C_Checked({"full-body"})
    /\ \A i \in {0, 11, 12, 23, 24, 27, 28} : C_Visible(i)
    /\ C_Y(0) < 8
    /\ C_Y(27) > 92

\* ---- C14 (SpecQuality).  In face mode the reason of a rejected frame is that of
\* the first violated check in the order: landmarks not visible, face width
\* < 0.12, face width > 0.70, nose.x outside [0.12, 0.88], nose.y < 0.08,
\* nose.y > 0.88; the six reasons differ, and a frame violating none is accepted.
C14_FaceWidth == IF C_X(7) > C_X(8) THEN C_X(7) - C_X(8) ELSE C_X(8) - C_X(7)

C14_Violated ==
    <<~(\A i \in {0, 1, 4, 7, 8} : C_Visible(i)),
      C14_FaceWidth < 12,
      C14_FaceWidth > 70,
      C_X(0) < 12 \/ C_X(0) > 88,
      C_Y(0) < 8,
      C_Y(0) > 88>>

C14_Reasons ==
    <<"Face not fully visible", "Move closer to the camera", "Move back from the camera",
      "Centre your face in frame", "Tilt face down slightly", "Tilt face up slightly">>

C14_FaceReasonOrder ==
    C_Checked({"face"}) =>
        /\ returned.kind = "return"
        /\ returned.valid <=> \A k \in 1..6 : ~C14_Violated[k]
        /\ \A k \in 1..6 :
              (C14_Violated[k] /\ \A j \in 1..(k - 1) : ~C14_Violated[j])
              => (~returned.valid /\ returned.reason = C14_Reasons[k])
        /\ \A j, k \in 1..6 : j /= k => C14_Reasons[j] /= C14_Reasons[k]

\* C14's case: the face is too far away and off centre at once
C14_Witness ==
    /\ C_Checked({"face"})
    /\ C14_FaceWidth < 12
    /\ C_X(0) > 88
    /\ \A i \in {0, 1, 4, 7, 8} : C_Visible(i)

\* ---- C15 (SpecQuality).  In upper-body and chest-front modes a set of at least
\* 33 landmarks is accepted exactly when both shoulders and both hips are visible,
\* min(shoulder.y) >= 0.05, max(hip.y) <= 0.95 and max(hip.y) - min(shoulder.y)
\* >= 0.22; no other landmark's visibility affects the outcome.
C15_Framed ==
    LET shoulderY == IF C_Y(11) < C_Y(12) THEN C_Y(11) ELSE C_Y(12)
        hipY == IF C_Y(23) > C_Y(24) THEN C_Y(23) ELSE C_Y(24)
    IN  shoulderY >= 5 /\ hipY <= 95 /\ hipY - shoulderY >= 22

C15_UpperBodyAccepts ==
    C_Checked({"upper-body", "chest-front"}) =>
        /\ returned.kind = "return"
        /\ returned.valid <=> ((\A i \in {11, 12, 23, 24} : C_Visible(i)) /\ C15_Framed)

\* C15 as amended: accepted exactly when both shoulders, both hips and both
\* wrists are visible and the framing conditions hold; no other landmark's
\* visibility affects the outcome.
C15_UpperBodyAcceptsWithWrists ==
    C_Checked({"upper-body", "chest-front"}) =>
        /\ returned.kind = "return"
        /\ returned.valid <=>
              ((\A i \in {11, 12, 23, 24, 15, 16} : C_Visible(i)) /\ C15_Framed)

\* C15's case: a well framed torso with a wrist that is not visible, and a
\* nose that is missing
C15_Witness ==
    /\ C_Checked({"upper-body", "chest-front"})
    /\ \A i \in {11, 12, 23, 24} : C_Visible(i)
    /\ C15_Framed
    /\ ~C_Visible(15)
    /\ ~C_Visible(0)
    /\ ~returned.valid

\* ---- C16 (SpecMeasure).  scaleMeasurements sets scaleFactor to
\* effectiveHeight / bodyHeightPx when bodyHeightPx > 0 and to 1 otherwise, with
\* effectiveHeight = userHeightCm in full-body mode and 0.56 * userHeightCm in
\* upper-body mode; so for userHeightCm > 0 the scaleFactor is strictly positive.
C16_ScaleFactor ==
    (call.fn = "scaleMeasurements" /\ returned /= NoReturn) =>
        LET sf == returned.measurements.scaleFactor
            px == call.raw.bodyHeightPx
            h == call.userHeightCm
        IN  /\ sf.den > 0
            /\ (px > 0 /\ call.mode = "full-body") => sf.num * px = sf.den * h
            /\ (px > 0 /\ call.mode = "upper-body") =>
                  100 * sf.num * px = 56 * sf.den * h
            /\ px <= 0 => sf.num = sf.den
            /\ h > 0 => sf.num > 0

\* C16's case: a record without a body height, scaled for a user of 170 cm
C16_Witness ==
    /\ call.fn = "scaleMeasurements" /\ returned /= NoReturn
    /\ call.raw.bodyHeightPx = 0
    /\ call.userHeightCm = 170
    /\ call.mode = "upper-body"
    /\ returned.measurements.scaleFactor = [num |-> 1, den |-> 1]

\* ---- C17 (SpecMeasure).  Every ratio of an output record (shoulder/hip,
\* leg/torso, armspan/height of scaleMeasurements, interocular and facial-width
\* ratio of extractFaceMeasurements) is a finite number, and is 0 when its
\* denominator is not positive.
C17_RatiosFinite ==
    /\ (call.fn = "scaleMeasurements" /\ returned /= NoReturn) =>
          LET m == returned.measurements
          IN  /\ m.shoulderToHipRatio.kind = "finite"
              /\ m.legToTorsoRatio.kind = "finite"
              /\ m.armspanToHeightRatio.kind = "finite"
              /\ m.hipWidthCm.v <= 0 => m.shoulderToHipRatio.v = 0
              /\ m.torsoLengthCm.v <= 0 => m.legToTorsoRatio.v = 0
              /\ call.userHeightCm <= 0 => m.armspanToHeightRatio.v = 0
    /\ (call.fn = "extractFaceMeasurements" /\ returned.kind = "return") =>
          /\ returned.face.interocularRatio.kind = "finite"
          /\ returned.face.facialWidthRatio.kind = "finite"
          /\ returned.face.earToEarPx <= 0 => returned.face.interocularRatio.v = 0
          /\ returned.face.faceHeightPx.num <= 0 => returned.face.facialWidthRatio.v = 0

\* ---- C18 (SpecMeasure).  computeChestCircumference returns 0 whenever a
\* semi-axis is <= 0, also through the chest estimate (0.85 * front shoulder
\* width / 2, side shoulder width / 2) and through computeWaistCircumference
\* (0.88 * front hip width / 2, side hip width / 2), which give 0 whenever the
\* front or the side width is <= 0; the result is never negative.
C18_CircumferenceZero ==
    /\ (call.fn = "computeChestCircumference" /\ returned /= NoReturn) =>
          /\ returned.value.kind = "finite"
          /\ returned.value.v >= 0
          /\ (call.semiWidth <= 0 \/ call.semiDepth <= 0) => returned.value.v = 0
    /\ (call.fn = "handlePose2Capture" /\ returned /= NoReturn) =>
          /\ returned.value.kind = "finite"
          /\ returned.value.v >= 0
          /\ (call.front <= 0 \/ call.side <= 0) => returned.value.v = 0

\* C18's case: a chest estimate from a good front pose and a side pose of
\* negative width
C18_Witness ==
    /\ call.fn = "handlePose2Capture" /\ returned /= NoReturn
    /\ call.selectedMode = "chest"
    /\ call.front = 38 /\ call.side = -38
    /\ returned.value = Num(0)

\* ---- helpers of the averaging claims: the orders of a sequence, and a
\* returned average
C_Orders(frames) ==
    LET n == Len(frames)
        bijections == {p \in [1..n -> 1..n] : \A i \in 1..n : \E j \in 1..n : p[j] = i}
    IN  {[i \in 1..n |-> frames[p[i]]] : p \in bijections}

C_Averaged ==
    /\ call.fn = "averageRawMeasurements"
    /\ returned /= NoReturn
    /\ returned.kind = "return"

\* ---- C19 (SpecAverage).  averageRawMeasurements does not depend on the order
\* of its input: the average of a non-empty sequence of raw records equals,
\* field by field, the average of every permutation of the sequence.
C19_OrderInsensitive ==
    C_Averaged =>
        \A other \in C_Orders(call.frames) :
            AverageRawMeasurements(other) = returned

\* ---- C20 (SpecAverage).  The average of one raw frame repeated n >= 1 times
\* is exactly that frame, and the average of a sequence concatenated with
\* itself is the average of the sequence.
C20_Idempotent ==
    C_Averaged =>
        /\ (\A i \in 1..Len(call.frames) : call.frames[i] = call.frames[1])
              => returned.value = call.frames[1]
        /\ \A half \in 1..Len(call.frames) :
              call.frames = SubSeq(call.frames, 1, half) \o SubSeq(call.frames, 1, half)
                 => returned = AverageRawMeasurements(SubSeq(call.frames, 1, half))

\* ---- helper of the statistics claims: a returned computePercentile call
C_Percentile ==
    /\ call.fn = "computePercentile"
    /\ returned /= NoReturn

\* ---- C21 (SpecStats).  computePercentile returns 50 for every value and mean
\* when stddev <= 0, and 50 for value = mean whatever the stddev > 0.
C21_MedianWithoutInformation ==
    C_Percentile =>
        /\ call.stddev <= 0 => returned.value = Num(50)
        /\ (call.stddev > 0 /\ call.value = call.mean) => returned.value = Num(50)

\* C21's cases: a value far from the mean with stddev 0, and the mean itself
\* with a positive stddev
C21_Witness ==
    /\ C_Percentile
    /\ returned.value = Num(50)
    /\ \/ call.stddev = 0 /\ call.value = 200
       \/ call.stddev = 15 /\ call.value = call.mean

\* ---- C22 (SpecStats).  For every value, mean and stddev > 0 computePercentile
\* returns a whole number p with 0 <= p <= 100.
C22_PercentileRange ==
    (C_Percentile /\ call.stddev > 0) =>
        /\ returned.value.kind = "finite"
        /\ returned.value.v \in 0..100

\* C22's case: both ends of the range and a value between them are returned
C22_Witness ==
    /\ C_Percentile
    /\ call.stddev = 1 /\ call.value = 200
    /\ returned.value = Num(100)

\* ---- helpers of C23: the number a sequence of digit characters writes, and
\* the suffix of the rule
RECURSIVE C_Decimal(_)
C_Decimal(digits) ==
    IF digits = <<>> THEN 0
    ELSE LET last == digits[Len(digits)]
             d == CHOOSE k \in 0..9 :
                     <<"0", "1", "2", "3", "4", "5", "6", "7", "8", "9">>[k + 1] = last
         IN  10 * C_Decimal(SubSeq(digits, 1, Len(digits) - 1)) + d

C_Suffix(n) ==
    IF n % 100 \in {11, 12, 13} THEN "th"
    ELSE IF n % 10 = 1 THEN "st"
    ELSE IF n % 10 = 2 THEN "nd"
    ELSE IF n % 10 = 3 THEN "rd"
    ELSE "th"

\* ---- C23 (SpecStats).  For a whole n >= 0, ordinalSuffix(n) is the decimal
\* digits of n followed by "th" when n mod 100 is 11, 12 or 13, otherwise by
\* "st", "nd", "rd" for a last digit 1, 2, 3, and by "th" for any other digit.
C23_OrdinalSuffix ==
    (call.fn = "ordinalSuffix" /\ returned /= NoReturn) =>
        LET text == returned.value
            digits == SubSeq(text, 1, Len(text) - 1)
        IN  /\ Len(text) >= 2
            /\ \A i \in 1..Len(digits) :
                  digits[i] \in {"0", "1", "2", "3", "4", "5", "6", "7", "8", "9"}
            /\ (Len(digits) > 1 => digits[1] /= "0")
            /\ C_Decimal(digits) = call.n
            /\ text[Len(text)] = C_Suffix(call.n)

\* C23's case: 112th, an exception beyond 100
C23_Witness ==
    /\ call.fn = "ordinalSuffix" /\ returned /= NoReturn
    /\ call.n = 112
    /\ returned.value = <<"1", "1", "2", "th">>

\* ---- C24 (SpecStats).  getStats returns a defined record for every argument
\* triple and never throws: the country|sex|age entry when there is one, else
\* the Global|sex|age entry, else the Global|other|25-34 entry.
C24_FallbackChain ==
    (call.fn = "getStats" /\ returned /= NoReturn) =>
        /\ returned.kind = "return"
        /\ returned.value.kind = "stats"
        /\ returned.value.key =
              IF call.sex \in Sexes /\ call.ageRange \in AGE_RANGES
              THEN IF call.country \in COUNTRIES
                   THEN <<call.country, call.sex, call.ageRange>>
                   ELSE <<"Global", call.sex, call.ageRange>>
              ELSE <<"Global", "other", "25-34">>

\* C24's case: the last link of the chain, for a sex the dataset does not have
C24_Witness ==
    /\ call.fn = "getStats" /\ returned /= NoReturn
    /\ call.country = "Japan" /\ call.sex = "prefer-not-to-say" /\ call.ageRange = "55+"
    /\ returned.value = DATASET[<<"Global", "other", "25-34">>]

\* ---- C25 (SpecResults).  A field that the mode does not measure is never
\* consumed as a measured zero: for an upper-body capture the leg length and
\* the leg / torso ratio are not passed to computePercentile and decide no
\* badge, on the results page and on the share card.
C25_NotMeasuredNotConsumed ==
    (call.fn = "ResultsPage" /\ returned /= NoReturn
       /\ call.session.scanMode = "upper-body") =>
        LET legLabels == {"Leg Length", "Leg / Torso Ratio"}
            legBadges == {"long-legged", "long-torso", "proportional-body", "sprinter-build"}
            ids(badges) == {badges[i] : i \in DOMAIN badges}
        IN  /\ \A metric \in returned.percentiles \cup returned.card.percentiles :
                  metric.label \notin legLabels
            /\ ids(returned.badges) \cap legBadges = {}
            /\ ids(returned.card.badges) \cap legBadges = {}

\* ---- C26 (Spec).  Within one CameraView session onCapture is invoked at most
\* once, whatever the order of the countdown reaching zero, the presses of the
\* capture button and the renders: after a capture has delivered a measurement
\* no later trigger delivers a second one.
C26_CaptureAtMostOnce == mounted => captures <= 1

\* ---- C27 (Spec).  In the two-pose chest flow the side-pose scan is active
\* only while a front-pose measurement is held; a chest session is saved only
\* by a capture of the side pose with the front measurement of the same run,
\* which only a capture of the front pose sets; and starting a scan from the
\* mode selection discards any earlier front measurement and begins at the
\* front pose.
C27_TwoPoseFlow ==
    [][ /\ (mounted' /\ mode' = "chest-side") => frontMeasurements' /= NoMeasurement
        /\ (saved' /= saved /\ saved'.chest) =>
              /\ mounted /\ mode = "chest-side"
              /\ captures' = captures + 1
              /\ frontMeasurements /= NoMeasurement
        /\ (frontMeasurements' /= frontMeasurements /\ frontMeasurements' /= NoMeasurement) =>
              /\ mounted /\ mode = "chest-front"
              /\ captures' = captures + 1
        /\ (step = "mode-select" /\ step' = "scanning") =>
              /\ frontMeasurements' = NoMeasurement
              /\ chestPose' = "front"
      ]_vars

\* C27's case: a chest session saved by the side pose's capture while the
\* front pose's measurement is held
C27_Witness ==
    /\ saved.chest /\ navPending
    /\ mounted /\ mode = "chest-side"
    /\ frontMeasurements /= NoMeasurement

\* ---- C28 (SpecStream).  After a CameraView is unmounted no camera stream it
\* acquired is active: however the getUserMedia request and the unmount
\* cleanup interleave, every MediaStream the component obtained has its tracks
\* stopped.
C28_NoStreamAfterUnmount ==
    \A k \in DOMAIN streams :
        ~cameras[streams[k].owner].mounted => streams[k].state = "stopped"

\* ---- C29 (SpecQuality).  In full-body mode the reason "Move back - too close"
\* is never given: with coordinates in [0, 1] a frame that passes the head
\* test (nose.y >= 0.08) and the feet test (max ankle.y <= 0.92) has a body
\* height fraction of 0.84 at most, so the > 0.98 test never holds.
C29_TooCloseUnreachable ==
    C_Checked({"full-body"}) =>
        /\ returned.reason /= "Move back - too close"
        /\ (/\ \A i \in {0, 11, 12, 23, 24, 27, 28} : C_Visible(i)
            /\ returned.reason \notin {"Move back - head cut off", "Move back - feet cut off"})
           => Max(C_Y(27), C_Y(28)) - C_Y(0) <= 84

\* C29's case: the tallest body both crop tests let through is accepted
C29_Witness ==
    /\ C_Checked({"full-body"})
    /\ \A i \in {0, 11, 12, 23, 24, 27, 28} : C_Visible(i)
    /\ C_Y(0) = 8
    /\ C_Y(27) = 92
    /\ returned.valid

\* ---- C30 (SpecQuality).  In every camera mode each landmark the mode's
\* extractor reads (full-body: extractRawMeasurements, face:
\* extractFaceMeasurements, the others: extractUpperBodyMeasurements) is one
\* whose presence and visibility the mode's validator has checked: in an
\* accepted frame every landmark read is there and visible.
C30_ReadsAreChecked ==
    (C_Checked(CameraModes) /\ returned.kind = "return" /\ returned.valid) =>
        \A i \in ExtractorReads(call.mode) : C_Visible(i)

====
